---- MODULE Spec2Model ----
(***************************************************************************)
(* State-machine model of thesis/optimization/routeset_graph.py            *)
(* (class RouteSetGraph and its Stop records) and of the places of         *)
(* thesis/optimization/genetic.py that drive it.                           *)
(*                                                                         *)
(* The graph-tool graph gtG is modelled by its vertex count nv (vertex     *)
(* indices are 0..nv-1, as graph-tool keeps them contiguous) and by the    *)
(* bag of its edges <<source, target, duration>>.  remove_vertex(fast=True)*)
(* moves the highest-indexed vertex into the vacated index.                *)
(*                                                                         *)
(* Python objects that are mutated in place (gtG, vertex_to_stop, routes,  *)
(* stops) live in a heap and an individual holds their addresses, so that  *)
(* copy() is modelled by what it allocates.  A raised Python exception     *)
(* ends the run: err records it and no further call is made.               *)
(* The SAVE_HISTORY audit list is write-only for every modelled operation  *)
(* and is not part of the model state.                                     *)
(***************************************************************************)
EXTENDS Integers, Sequences, FiniteSets, Bags, TLC

VARIABLES heap, ind, err, nops, last, irs, run

vars == <<heap, ind, err, nops, last, irs, run>>

(* ------------------------------ bounds --------------------------------- *)
NStops == 3
MaxRoutes == 2
MaxOps == 3
MaxOpsRoutes == 5
MaxOpsCopy == 2
MaxOpsDup == 3
MaxFitRoutes == 4
MaxK == 3
MaxDebt == 100
pop_size == 3
elite_size == 1
tournament_size == 2
min_route_size == 1
niterations == 2
MaxMutations == 3
MaxMutationsLongRun == 4

(* ------------------------- program constants --------------------------- *)
ORIGIN == -1
DEST == -2
bus_stop_time == 30
transfer_time == 300
w2_offset == 3000
APPEND_DURATION == 100

StopIds == 1..NStops
RouteIds == 0..(MaxRoutes - 1)
Inds == 1..(pop_size + 3)
None == "None"

(* Durations().get_duration(o, d): a fixed table, asymmetric and with     *)
(* values that differ from the constant used by append_stop.              *)
get_duration(o, d) == 10 * o + d

(* ------------------------- dict / list helpers ------------------------- *)
EmptyDict == [x \in {} |-> 0]

Put(f, k, v) == (k :> v) @@ f

Del(f, k) == [x \in (DOMAIN f) \ {k} |-> f[x]]

Range(s) == {s[i] : i \in DOMAIN s}

RECURSIVE Without(_, _)
(* the list s without the entries equal to x *)
Without(s, x) ==
    IF s = <<>> THEN s
    ELSE IF Head(s) = x THEN Without(Tail(s), x)
    ELSE <<Head(s)>> \o Without(Tail(s), x)

(* list.insert(idx, x) with a 0-based idx; idx >= len appends *)
ListInsert(s, idx, x) ==
    IF idx >= Len(s) THEN Append(s, x)
    ELSE SubSeq(s, 1, idx) \o <<x>> \o SubSeq(s, idx + 1, Len(s))

(* del list[idx] with a 0-based idx *)
ListDel(s, idx) == SubSeq(s, 1, idx) \o SubSeq(s, idx + 2, Len(s))

Reverse(s) == [i \in 1..Len(s) |-> s[Len(s) + 1 - i]]

(* --------------------------- graph-tool graph -------------------------- *)
Edge(u, v, w) == <<u, v, w>>

gt_add_edge(g, u, v, w) == [g EXCEPT !.edges = @ (+) SetToBag({Edge(u, v, w)})]

(* Graph.remove_vertex(v, fast=True): the edges of v go, the vertex with  *)
(* the largest index inherits the index v.                                *)
gt_remove_vertex(g, v) ==
    LET lastv == g.nv - 1
        keep == {e \in DOMAIN g.edges : e[1] # v /\ e[2] # v}
        ren(x) == IF x = lastv THEN v ELSE x
        renE(e) == Edge(ren(e[1]), ren(e[2]), e[3])
        src(e2) == CHOOSE e \in keep : renE(e) = e2
    IN [g EXCEPT !.nv = lastv,
                 !.edges = [e2 \in {renE(e) : e \in keep} |-> g.edges[src(e2)]]]

(* Graph.edge(u, v): the durations of the edges from u to v *)
EdgeDurations(g, u, v) == {e[3] : e \in {x \in DOMAIN g.edges : x[1] = u /\ x[2] = v}}

(* ------------------------------ class Stop ----------------------------- *)
(* A Stop record: [origin_idx, destination_idx, route_nodes], route_nodes *)
(* a dict RouteId -> [stop_seq, vertex_idx].                              *)
NewStop(origin_idx, destination_idx) ==
    [origin_idx |-> origin_idx, destination_idx |-> destination_idx,
     route_nodes |-> EmptyDict]

update_reference(stop, route_id, new_idx) ==
    IF route_id = ORIGIN THEN [stop EXCEPT !.origin_idx = new_idx]
    ELSE IF route_id = DEST THEN [stop EXCEPT !.destination_idx = new_idx]
    ELSE [stop EXCEPT !.route_nodes[route_id].vertex_idx = new_idx]

delete_node(stop, route_id) == [stop EXCEPT !.route_nodes = Del(@, route_id)]

get_seq(stop, route_id) == stop.route_nodes[route_id].stop_seq

update_seq(stop, route_id, new_seq) ==
    [stop EXCEPT !.route_nodes[route_id].stop_seq = new_seq]

(* -------------------------- class RouteSetGraph ------------------------ *)
(* The operators below act on the value g of one individual:              *)
(* [nv, edges, vertex_to_stop, routes, routes_order, stops,               *)
(*  routes_changed, fitness, report, err].  routes_order is the order of  *)
(* the keys of the dict routes, which is the order of get_routes().       *)
(* g.err # None means an exception is propagating: every later statement  *)
(* is skipped.                                                            *)
Raise(g, e) == [g EXCEPT !.err = e]

Ok(g) == g.err = None

nroutes(g) == Cardinality(DOMAIN g.routes)

get_route_vertex(g, stop_id, route_id) ==
    g.stops[stop_id].route_nodes[route_id].vertex_idx

add_vertex_to_stop_mapping(g, vertex, stop_id, route_id) ==
    [g EXCEPT !.vertex_to_stop =
        Put(@, vertex, [stop_id |-> stop_id, route_id |-> route_id])]

_add_stop_base(g, stop_id) ==
    LET origin_v == g.nv
        dest_v == g.nv + 1
        g1 == [g EXCEPT !.nv = @ + 2]
        g2 == add_vertex_to_stop_mapping(g1, origin_v, stop_id, ORIGIN)
        g3 == add_vertex_to_stop_mapping(g2, dest_v, stop_id, DEST)
    IN [g3 EXCEPT !.stops = Put(@, stop_id, NewStop(origin_v, dest_v))]

(* TransferEdges with the edge back from the other route node left out *)
TransferEdges_OneWay(g, stop_id, route_node) ==
    LET rns == g.stops[stop_id].route_nodes
    IN SetToBag({Edge(route_node, rns[o].vertex_idx, transfer_time) : o \in DOMAIN rns})

(* the two transfer edges towards every route node the stop already has *)
TransferEdges(g, stop_id, route_node) ==
    LET rns == g.stops[stop_id].route_nodes
    IN [e \in UNION {{Edge(route_node, rns[o].vertex_idx, transfer_time),
                      Edge(rns[o].vertex_idx, route_node, transfer_time)}
                     : o \in DOMAIN rns} |->
          Cardinality({o \in DOMAIN rns :
                         e \in {Edge(route_node, rns[o].vertex_idx, transfer_time),
                                Edge(rns[o].vertex_idx, route_node, transfer_time)}})]

(* _add_stop creating the base vertices on every call, known stop or not *)
_add_stop_AlwaysBase(g, stop_id, route_id, stop_seq) ==
    LET g1 == _add_stop_base(g, stop_id)
        route_node == g1.nv
        g2 == [g1 EXCEPT !.nv = @ + 1,
                         !.routes[route_id] = ListInsert(@, stop_seq, stop_id)]
        g3 == add_vertex_to_stop_mapping(g2, route_node, stop_id, route_id)
        g4 == gt_add_edge(g3, g3.stops[stop_id].origin_idx, route_node, 0)
        g5 == gt_add_edge(g4, route_node, g4.stops[stop_id].destination_idx, 0)
    IN [g5 EXCEPT !.stops[stop_id].route_nodes =
          Put(@, route_id, [stop_seq |-> stop_seq, vertex_idx |-> route_node])]

(* _add_stop with the assert of Stop.add_route_node taken out *)
_add_stop_NoAssert(g, stop_id, route_id, stop_seq) ==
    LET g1 == IF stop_id \notin DOMAIN g.stops THEN _add_stop_base(g, stop_id) ELSE g
        route_node == g1.nv
        g2 == [g1 EXCEPT !.nv = @ + 1,
                         !.routes[route_id] = ListInsert(@, stop_seq, stop_id)]
        g3 == add_vertex_to_stop_mapping(g2, route_node, stop_id, route_id)
        g4 == gt_add_edge(g3, g3.stops[stop_id].origin_idx, route_node, 0)
        g5 == gt_add_edge(g4, route_node, g4.stops[stop_id].destination_idx, 0)
        g6 == [g5 EXCEPT !.edges = @ (+) TransferEdges(g5, stop_id, route_node)]
    IN [g6 EXCEPT !.stops[stop_id].route_nodes =
          Put(@, route_id, [stop_seq |-> stop_seq, vertex_idx |-> route_node])]

_add_stop(g, stop_id, route_id, stop_seq) ==
    LET g1 == IF stop_id \notin DOMAIN g.stops THEN _add_stop_base(g, stop_id) ELSE g
        route_node == g1.nv
        g2 == [g1 EXCEPT !.nv = @ + 1,
                         !.routes[route_id] = ListInsert(@, stop_seq, stop_id)]
        g3 == add_vertex_to_stop_mapping(g2, route_node, stop_id, route_id)
        g4 == gt_add_edge(g3, g3.stops[stop_id].origin_idx, route_node, 0)
        g5 == gt_add_edge(g4, route_node, g4.stops[stop_id].destination_idx, 0)
        g6 == [g5 EXCEPT !.edges = @ (+) TransferEdges(g5, stop_id, route_node)]
    IN IF route_id \in DOMAIN g6.stops[stop_id].route_nodes
       THEN Raise(g6, "AssertionError")
       ELSE [g6 EXCEPT !.stops[stop_id].route_nodes =
               Put(@, route_id, [stop_seq |-> stop_seq, vertex_idx |-> route_node])]

_add_route_edge(g, from_sid, to_sid, route_id, duration) ==
    gt_add_edge(g, get_route_vertex(g, from_sid, route_id),
                   get_route_vertex(g, to_sid, route_id), duration)

(* decorator _routes_changed *)
_routes_changed(g) == [g EXCEPT !.routes_changed = TRUE]

append_stop(g, stop_id, route_id) ==
    LET g0 == _routes_changed(g)
        g1 == _add_stop(g0, stop_id, route_id, Len(g0.routes[route_id]))
        route == g1.routes[route_id]
    IN IF ~Ok(g) THEN g
       ELSE IF route_id \notin DOMAIN g0.routes THEN Raise(g0, "KeyError")
       ELSE IF ~Ok(g1) THEN g1
       ELSE IF Len(route) > 1
            THEN _add_route_edge(g1, route[Len(route) - 1], stop_id, route_id,
                                 APPEND_DURATION + bus_stop_time)
            ELSE g1

RECURSIVE ShiftSeqs(_, _, _, _)
(* for sid in sids: stop.update_seq(route_id, stop.get_seq(route_id) + by) *)
ShiftSeqs(g, sids, route_id, by) ==
    IF sids = <<>> THEN g
    ELSE ShiftSeqs(
           [g EXCEPT !.stops[Head(sids)] =
               update_seq(@, route_id, get_seq(@, route_id) + by)],
           Tail(sids), route_id, by)

prepend_stop(g, stop_id, route_id) ==
    LET g0 == _routes_changed(g)
        g1 == _add_stop(g0, stop_id, route_id, 0)
        route == g1.routes[route_id]
        g2 == ShiftSeqs(g1, Tail(route), route_id, 1)
    IN IF ~Ok(g) THEN g
       ELSE IF route_id \notin DOMAIN g0.routes THEN Raise(g0, "KeyError")
       ELSE IF ~Ok(g1) THEN g1
       ELSE IF Len(route) < 2 THEN Raise(g2, "IndexError")
       ELSE _add_route_edge(g2, stop_id, route[2], route_id,
                            get_duration(stop_id, route[2]) + bus_stop_time)

RECURSIVE AppendAll(_, _, _)
(* for sid in route: self.append_stop(sid, route_id) *)
AppendAll(g, route, route_id) ==
    IF route = <<>> \/ ~Ok(g) THEN g
    ELSE AppendAll(append_stop(g, Head(route), route_id), Tail(route), route_id)

(* the default route_id=None of add_route, kept apart from every RouteId *)
NoRouteId == -3

(* add_route(route, route_id); route_id = None takes len(self.routes) *)
add_route(g, route, route_id) ==
    LET g0 == _routes_changed(g)
        rid == IF route_id = NoRouteId THEN nroutes(g0) ELSE route_id
        g1 == [g0 EXCEPT !.routes = Put(@, rid, <<>>),
                         !.routes_order = IF rid \in DOMAIN g0.routes THEN @
                                          ELSE Append(@, rid)]
    IN IF ~Ok(g) THEN g ELSE AppendAll(g1, route, rid)

(* _update_last_node_references moving the vertex_to_stop entry without   *)
(* stop.update_reference                                                  *)
_update_last_node_references_NoReference(g, node) ==
    LET last_v == g.nv - 1
        stop_map == g.vertex_to_stop[last_v]
    IN IF last_v = node THEN g
       ELSE [g EXCEPT !.vertex_to_stop = Del(Put(@, node, stop_map), last_v)]

_update_last_node_references(g, node) ==
    LET last_v == g.nv - 1
        stop_map == g.vertex_to_stop[last_v]
        g1 == [g EXCEPT !.stops[stop_map.stop_id] =
                  update_reference(@, stop_map.route_id, node)]
    IN IF last_v = node THEN g
       ELSE [g1 EXCEPT !.vertex_to_stop = Del(Put(@, node, stop_map), last_v)]

_delete_stop(g, stop_id) ==
    LET g1 == _update_last_node_references(g, g.stops[stop_id].destination_idx)
        g2 == gt_remove_vertex(g1, g.stops[stop_id].destination_idx)
        g3 == _update_last_node_references(g2, g2.stops[stop_id].origin_idx)
        g4 == gt_remove_vertex(g3, g2.stops[stop_id].origin_idx)
    IN [g4 EXCEPT !.stops = Del(@, stop_id)]

(* the body of remove_route's loop for one stop *)
RemoveRouteStop(g, stop_id, route_id) ==
    LET node == get_route_vertex(g, stop_id, route_id)
        g1 == _update_last_node_references(g, node)
        g2 == gt_remove_vertex(g1, node)
        g3 == [g2 EXCEPT !.stops[stop_id] = delete_node(@, route_id)]
    IN IF DOMAIN g3.stops[stop_id].route_nodes = {}
       THEN _delete_stop(g3, stop_id)
       ELSE g3

RECURSIVE RemoveRouteStops(_, _, _)
RemoveRouteStops(g, sids, route_id) ==
    IF sids = <<>> THEN g
    ELSE RemoveRouteStops(RemoveRouteStop(g, Head(sids), route_id),
                          Tail(sids), route_id)

remove_route(g, route_id) ==
    LET g0 == _routes_changed(g)
        g1 == RemoveRouteStops(g0, Reverse(g0.routes[route_id]), route_id)
    IN IF ~Ok(g) THEN g
       ELSE IF route_id \notin DOMAIN g0.routes THEN Raise(g0, "KeyError")
       ELSE [g1 EXCEPT !.routes = Del(@, route_id),
                       !.routes_order = Without(@, route_id)]

replace_route(g, route_id, new_route) ==
    LET g0 == _routes_changed(g)
        g1 == remove_route(g0, route_id)
    IN IF ~Ok(g) THEN g
       ELSE IF ~Ok(g1) THEN g1
       ELSE add_route(g1, new_route, route_id)

(* get_edge(from_sid, to_sid, route_id): the durations of the edges       *)
(* between the two route vertices ({} when gtG.edge returns None)         *)
get_edge(g, from_sid, to_sid, route_id) ==
    EdgeDurations(g, get_route_vertex(g, from_sid, route_id),
                     get_route_vertex(g, to_sid, route_id))

(* remove_node giving the splice edge the sum of the two removed weights *)
remove_node_KeepDwell(g, stop_id, route_id) ==
    LET g0 == _routes_changed(g)
        seq == get_seq(g0.stops[stop_id], route_id)
        route == g0.routes[route_id]
        interior == seq > 0 /\ seq < Len(route) - 1
        e1 == get_edge(g0, route[seq], route[seq + 1], route_id)
        e2 == get_edge(g0, route[seq + 1], route[seq + 2], route_id)
        duration == (CHOOSE w \in e1 : TRUE) + (CHOOSE w \in e2 : TRUE)
        g1 == IF interior
              THEN _add_route_edge(g0, route[seq], route[seq + 2], route_id, duration)
              ELSE g0
        node == get_route_vertex(g1, stop_id, route_id)
        g2 == _update_last_node_references(g1, node)
        g3 == gt_remove_vertex(g2, node)
        g4 == [g3 EXCEPT !.stops[stop_id] = delete_node(@, route_id)]
        succs == SubSeq(route, seq + 2, Len(route))
        g5 == ShiftSeqs(g4, succs, route_id, -1)
        g6 == [g5 EXCEPT !.routes[route_id] = ListDel(@, seq)]
        stop == IF succs = <<>> THEN stop_id ELSE succs[Len(succs)]
    IN IF ~Ok(g) THEN g
       ELSE IF stop_id \notin DOMAIN g0.stops
               \/ route_id \notin DOMAIN g0.stops[stop_id].route_nodes
               \/ route_id \notin DOMAIN g0.routes
            THEN Raise(g0, "KeyError")
       ELSE IF interior /\ (e1 = {} \/ e2 = {}) THEN Raise(g0, "ValueError")
       ELSE IF DOMAIN g6.stops[stop].route_nodes = {}
            THEN _delete_stop(g6, stop_id)
            ELSE g6

(* remove_node(stop_id, route_id).  seq is the 0-based stop_seq; the      *)
(* variable stop of the source is rebound by the loop over route[seq+1:], *)
(* so the final test reads the record of the last stop of the route       *)
(* whenever stop_id was not the tail.                                     *)
remove_node(g, stop_id, route_id) ==
    LET g0 == _routes_changed(g)
        seq == get_seq(g0.stops[stop_id], route_id)
        route == g0.routes[route_id]
        interior == seq > 0 /\ seq < Len(route) - 1
        e1 == get_edge(g0, route[seq], route[seq + 1], route_id)
        e2 == get_edge(g0, route[seq + 1], route[seq + 2], route_id)
        duration == (CHOOSE w \in e1 : TRUE) + (CHOOSE w \in e2 : TRUE) - bus_stop_time
        g1 == IF interior
              THEN _add_route_edge(g0, route[seq], route[seq + 2], route_id, duration)
              ELSE g0
        node == get_route_vertex(g1, stop_id, route_id)
        g2 == _update_last_node_references(g1, node)
        g3 == gt_remove_vertex(g2, node)
        g4 == [g3 EXCEPT !.stops[stop_id] = delete_node(@, route_id)]
        succs == SubSeq(route, seq + 2, Len(route))
        g5 == ShiftSeqs(g4, succs, route_id, -1)
        g6 == [g5 EXCEPT !.routes[route_id] = ListDel(@, seq)]
        stop == IF succs = <<>> THEN stop_id ELSE succs[Len(succs)]
    IN IF ~Ok(g) THEN g
       ELSE IF stop_id \notin DOMAIN g0.stops
               \/ route_id \notin DOMAIN g0.stops[stop_id].route_nodes
               \/ route_id \notin DOMAIN g0.routes
            THEN Raise(g0, "KeyError")
       ELSE IF interior /\ (e1 = {} \/ e2 = {}) THEN Raise(g0, "ValueError")
       ELSE IF DOMAIN g6.stops[stop].route_nodes = {}
            THEN _delete_stop(g6, stop_id)
            ELSE g6

(* ----------------------------- demand table ---------------------------- *)
(* ODX().odx: origin -> destination -> count *)
ODX ==
    (<<1, 3>> :> 10) @@ (<<1, 2>> :> 4) @@ (<<3, 1>> :> 7) @@ (<<2, 4>> :> 2)
    @@ (<<1, 4>> :> 5) @@ (<<1, 5>> :> 3) @@ (<<5, 6>> :> 1)

ODX_origins == {p[1] : p \in DOMAIN ODX}

ODX_get_dests(o) == {p[2] : p \in {q \in DOMAIN ODX : q[1] = o}}

ODX_get_odx(o, d) == ODX[<<o, d>>]

(* the demand tables of two small instances: one pair 1 -> 5, and a pair  *)
(* with its destination on the route next to a pair with it off the route *)
ODX_S1 == (<<1, 5>> :> 10)

ODX_S2 == (<<1, 3>> :> 7) @@ (<<1, 4>> :> 2)

(* ------------------------------- fitness ------------------------------- *)
INF == 1000000

SetMin(S) == CHOOSE x \in S : \A y \in S : x <= y

RECURSIVE SetSum(_, _)
(* sum of f(x) over x in S, f given as a function *)
SetSum(f, S) ==
    IF S = {} THEN 0
    ELSE LET x == CHOOSE y \in S : TRUE IN f[x] + SetSum(f, S \ {x})

RECURSIVE GCD(_, _)
GCD(a, b) == IF b = 0 THEN a ELSE GCD(b, a % b)

Abs(x) == IF x < 0 THEN -x ELSE x

(* a float as an exact fraction in lowest terms; den = 0 is NaN *)
Rat(n, d) ==
    IF d = 0 THEN [num |-> 0, den |-> 0]
    ELSE LET k == GCD(Abs(n), d) IN [num |-> n \div k, den |-> d \div k]

NaN == Rat(0, 0)

RECURSIVE Relax(_, _, _)
(* at most k rounds of edge relaxation from the distance map d, stopping  *)
(* at the fixed point                                                     *)
Relax(g, d, k) ==
    LET nd == [v \in DOMAIN d |->
                 SetMin({d[v]} \cup
                        {d[e[1]] + e[3] : e \in {x \in DOMAIN g.edges :
                                                  x[2] = v /\ d[x[1]] < INF}})]
    IN IF k = 0 \/ nd = d THEN d ELSE Relax(g, nd, k - 1)

(* gt.topology.shortest_distance(gtG, from_v, ..., weights=duration):     *)
(* the distance of every vertex from from_v, INF when unreachable         *)
shortest_distance(g, from_v) ==
    Relax(g, [v \in 0..(g.nv - 1) |-> IF v = from_v THEN 0 ELSE INF], g.nv)

(* pred_map[v]: a predecessor of v on a shortest path (the lowest index   *)
(* among the candidates)                                                  *)
pred_map(g, dist, v) ==
    SetMin({e[1] : e \in {x \in DOMAIN g.edges :
                            x[2] = v /\ dist[x[1]] < INF /\ dist[x[1]] + x[3] = dist[v]}})

is_route_node(node) == node.route_id >= 0

RECURSIVE WalkBack(_, _, _, _, _, _)
(* the while loop of get_distances_transfers: the set rids *)
WalkBack(g, dist, from_sid, sid, v, rids) ==
    IF sid = from_sid THEN rids
    ELSE LET next_idx == pred_map(g, dist, v)
             vts == g.vertex_to_stop[next_idx]
         IN WalkBack(g, dist, from_sid, vts.stop_id, next_idx,
                     IF is_route_node(vts) THEN rids \cup {vts.route_id} ELSE rids)

(* get_distances_transfers counting every route touched as a transfer *)
get_distances_transfers_NoMinus(g, from_sid, to_sid) ==
    LET dists == shortest_distance(g, g.stops[from_sid].origin_idx)
        to_v == g.stops[to_sid].destination_idx
        rids == WalkBack(g, dists, from_sid, to_sid, to_v, {})
        ntransfers == Cardinality(rids)
    IN IF dists[to_v] >= INF THEN [dist |-> INF, ntransfers |-> 0]
       ELSE [dist |-> dists[to_v] - ((bus_stop_time * ntransfers) + bus_stop_time),
             ntransfers |-> ntransfers]

(* get_distances_transfers(from_sid, to_sids)[to_sid]: [dist, ntransfers], *)
(* dist = INF standing for (None, None)                                   *)
get_distances_transfers(g, from_sid, to_sid) ==
    LET dists == shortest_distance(g, g.stops[from_sid].origin_idx)
        to_v == g.stops[to_sid].destination_idx
        rids == WalkBack(g, dists, from_sid, to_sid, to_v, {})
        ntransfers == Cardinality(rids) - 1
    IN IF dists[to_v] >= INF THEN [dist |-> INF, ntransfers |-> 0]
       ELSE [dist |-> dists[to_v] - ((bus_stop_time * ntransfers) + bus_stop_time),
             ntransfers |-> ntransfers]

(* compute_fitness_with taking every pair with a path as satisfied,       *)
(* whatever its number of transfers                                       *)
compute_fitness_with_NoLimit(g, odx) ==
    LET pairs == DOMAIN odx
        origins == {p[1] : p \in pairs}
        o_absent == {p \in pairs : p[1] \notin DOMAIN g.stops}
        d_absent == {p \in pairs : p[1] \in DOMAIN g.stops /\ p[2] \notin DOMAIN g.stops}
        present == {p \in pairs : p[1] \in DOMAIN g.stops /\ p[2] \in DOMAIN g.stops}
        res == [p \in present |-> get_distances_transfers(g, p[1], p[2])]
        no_path == {p \in present : res[p].dist >= INF}
        found == present \ no_path
        no_path_l2 == {}
        satisfied_od_pairs == found
        unsatisfied_od_pairs == o_absent \cup d_absent \cup no_path \cup no_path_l2
        unsatisfied_demand == SetSum(odx, o_absent) + SetSum(odx, d_absent)
                              + SetSum(odx, no_path) + SetSum(odx, no_path_l2)
        satisfied_demand == SetSum(odx, satisfied_od_pairs)
        satisfied_stops ==
            {o \in origins : o \in DOMAIN g.stops} \cup {p[2] : p \in present}
        unsatisfied_stops ==
            {o \in origins : o \notin DOMAIN g.stops} \cup {p[2] : p \in d_absent}
        TT == SetSum([p \in found |-> res[p].dist * odx[p]], found)
        TTR == SetSum([p \in found |-> res[p].ntransfers * odx[p]], found)
        TU == unsatisfied_demand
        sum_tt == SetSum([p \in found |-> res[p].dist], found)
        n_tt == Cardinality(found)
        transfers == [n \in {res[p].ntransfers : p \in found} |->
                        SetSum(odx, {p \in found : res[p].ntransfers = n})]
    IN [report |->
          [nsatisfied_od_pairs |-> Cardinality(satisfied_od_pairs),
           nunsatisfied_od_pairs |-> Cardinality(unsatisfied_od_pairs),
           nsatisfied_stops |-> Cardinality(satisfied_stops),
           nunsatisfied_stops |-> Cardinality(unsatisfied_stops),
           satisfied_demand |-> satisfied_demand,
           unsatisfied_demand |-> unsatisfied_demand,
           average_travel_time |-> Rat(sum_tt, n_tt),
           transfers |-> transfers,
           no_path |-> Cardinality(no_path),
           no_path_less_2_transfers |-> Cardinality(no_path_l2)],
        fitness |->
          IF n_tt = 0 THEN NaN
          ELSE Rat((TT + TTR) * n_tt + TU * (sum_tt + w2_offset * n_tt), n_tt),
        TT |-> TT, TTR |-> TTR, TU |-> TU,
        satisfied_od_pairs |-> satisfied_od_pairs,
        unsatisfied_od_pairs |-> unsatisfied_od_pairs,
        res |-> res]

(* _compute_fitness() reading the demand table odx: the report, the       *)
(* objective value, and the locals TT, TTR, TU and the sets of pairs the  *)
(* loop fills.  Each += of the source is one term of a sum below.         *)
compute_fitness_with(g, odx) ==
    LET pairs == DOMAIN odx
        origins == {p[1] : p \in pairs}
        o_absent == {p \in pairs : p[1] \notin DOMAIN g.stops}
        d_absent == {p \in pairs : p[1] \in DOMAIN g.stops /\ p[2] \notin DOMAIN g.stops}
        present == {p \in pairs : p[1] \in DOMAIN g.stops /\ p[2] \in DOMAIN g.stops}
        res == [p \in present |-> get_distances_transfers(g, p[1], p[2])]
        no_path == {p \in present : res[p].dist >= INF}
        found == present \ no_path
        no_path_l2 == {p \in found : res[p].ntransfers > 2}
        satisfied_od_pairs == {p \in found : ~(res[p].ntransfers > 2)}
        unsatisfied_od_pairs == o_absent \cup d_absent \cup no_path \cup no_path_l2
        unsatisfied_demand == SetSum(odx, o_absent) + SetSum(odx, d_absent)
                              + SetSum(odx, no_path) + SetSum(odx, no_path_l2)
        satisfied_demand == SetSum(odx, satisfied_od_pairs)
        satisfied_stops ==
            {o \in origins : o \in DOMAIN g.stops} \cup {p[2] : p \in present}
        unsatisfied_stops ==
            {o \in origins : o \notin DOMAIN g.stops} \cup {p[2] : p \in d_absent}
        TT == SetSum([p \in found |-> res[p].dist * odx[p]], found)
        TTR == SetSum([p \in found |-> res[p].ntransfers * odx[p]], found)
        TU == unsatisfied_demand
        sum_tt == SetSum([p \in found |-> res[p].dist], found)
        n_tt == Cardinality(found)
        transfers == [n \in {res[p].ntransfers : p \in found} |->
                        SetSum(odx, {p \in found : res[p].ntransfers = n})]
    IN [report |->
          [nsatisfied_od_pairs |-> Cardinality(satisfied_od_pairs),
           nunsatisfied_od_pairs |-> Cardinality(unsatisfied_od_pairs),
           nsatisfied_stops |-> Cardinality(satisfied_stops),
           nunsatisfied_stops |-> Cardinality(unsatisfied_stops),
           satisfied_demand |-> satisfied_demand,
           unsatisfied_demand |-> unsatisfied_demand,
           average_travel_time |-> Rat(sum_tt, n_tt),
           transfers |-> transfers,
           no_path |-> Cardinality(no_path),
           no_path_less_2_transfers |-> Cardinality(no_path_l2)],
        fitness |->
          IF n_tt = 0 THEN NaN
          ELSE Rat((TT + TTR) * n_tt + TU * (sum_tt + w2_offset * n_tt), n_tt),
        TT |-> TT, TTR |-> TTR, TU |-> TU,
        satisfied_od_pairs |-> satisfied_od_pairs,
        unsatisfied_od_pairs |-> unsatisfied_od_pairs,
        res |-> res]

(* _compute_fitness(): ODX() is the process-wide table *)
_compute_fitness(g) == compute_fitness_with(g, ODX)

get_fitness(g) ==
    IF g.routes_changed
    THEN LET rf == _compute_fitness(g)
         IN [g EXCEPT !.report = rf.report, !.fitness = rf.fitness,
                      !.routes_changed = FALSE]
    ELSE g

(* RouteSetGraph.__init__ *)
NoReport == [absent |-> TRUE]

NewRouteSetGraph ==
    [nv |-> 0, edges |-> EmptyBag, vertex_to_stop |-> EmptyDict,
     routes |-> EmptyDict, routes_order |-> <<>>, stops |-> EmptyDict,
     routes_changed |-> FALSE, fitness |-> Rat(-1, 1), report |-> NoReport,
     err |-> None]

(* copy() handing the routes dict of the original to the new individual *)
copy_refs_SharedRoutes(src, dst) ==
    [gtG |-> dst, vertex_to_stop |-> dst, routes |-> ind[src].routes, stops |-> dst]

(* copy() handing the stops dict of the original to the new individual *)
copy_refs_SharedStops(src, dst) ==
    [gtG |-> dst, vertex_to_stop |-> dst, routes |-> dst, stops |-> ind[src].stops]

(* copy(): the addresses of the objects held by the new individual when   *)
(* it is stored in slot dst; every one of them is newly allocated.        *)
copy_refs(src, dst) ==
    [gtG |-> dst, vertex_to_stop |-> dst, routes |-> dst, stops |-> dst]

(* ------------------------------ road graph ----------------------------- *)
(* the road graph: a one-way line 1 -> 2 -> ... over the stops.           *)
(* RoadGraph.shortest_path(a, b): the stops from a to b, [] when b is not *)
(* reachable from a                                                       *)
shortest_path(a, b) == [k \in 1..(b - a + 1) |-> a + k - 1]

in_neighbors(s) == {x \in StopIds : x + 1 = s}

out_neighbors(s) == {x \in StopIds : s + 1 = x}

(* ------------------------------- DS table ------------------------------ *)
(* DS().get_ds(o, d): the pairs (m, n) of stops that the road path from o *)
(* to d passes in that order, as compute_ds writes them; for a pair whose *)
(* path is gone from the road graph the entry holds the pair itself       *)
DS_get_ds(o, d) ==
    IF shortest_path(o, d) = <<>> THEN {<<o, d>>}
    ELSE {<<m, n>> : m \in o..d, n \in o..d} \cap {q \in StopIds \X StopIds : q[1] < q[2]}

(* the pairs a DS table over the stops can have as keys *)
DS_AllPairs == {q \in StopIds \X StopIds : q[1] # q[2]}

(* ----------------------- get_initial_routeset -------------------------- *)
(* irs: the frame of one get_initial_routeset(n_routes) call against a DS *)
(* table with the keys ds: its locals and its position pc                 *)
(* ("while": at the loop test, "select": totals sorted, about to take the *)
(* first key, "return": returned).  totals is the dict as the list of its *)
(* items in iteration order.                                              *)
NotCalled ==
    [pc |-> "idle", ds |-> {}, n_routes |-> 0, routes |-> <<>>, totals |-> <<>>,
     newly_satisfied |-> {}, i |-> 0]

(* totals[(o, d)] after the first loop: the demand of the pairs of        *)
(* DS().get_ds(o, d) that the ODX table has                               *)
InitialTotal(p) ==
    SetSum(ODX, DS_get_ds(p[1], p[2]) \cap DOMAIN ODX)

RECURSIVE SetToSortedSeq(_)
(* the pairs of S in lexicographic order *)
SetToSortedSeq(S) ==
    IF S = {} THEN <<>>
    ELSE LET x == CHOOSE y \in S :
                    \A z \in S : y[1] < z[1] \/ (y[1] = z[1] /\ y[2] <= z[2])
         IN <<x>> \o SetToSortedSeq(S \ {x})

(* sorted(totals.items(), key=lambda item: item[1], reverse=True): by     *)
(* falling total, equal items in the order they had                       *)
SortDesc(items) ==
    LET before(j, k) ==
            \/ items[j].total > items[k].total
            \/ (items[j].total = items[k].total /\ j < k)
        place(k) == 1 + Cardinality({j \in DOMAIN items : before(j, k)})
    IN [p \in DOMAIN items |-> items[CHOOSE k \in DOMAIN items : place(k) = p]]

(* a total after totals[(o, d)] -= ..., kept above -MaxDebt *)
Owe(total, x) == IF total - x < -MaxDebt THEN -MaxDebt ELSE total - x

(* for m, n in newly_satisfied: for o, d in satisfied_by[(m, n)]:         *)
(*     totals[(o, d)] -= ODX().get_odx(m, n)                              *)
SubtractNewlySatisfied(totals, newly_satisfied) ==
    [k \in DOMAIN totals |->
       [totals[k] EXCEPT !.total =
          Owe(@, SetSum(ODX, newly_satisfied \cap DOMAIN ODX
                              \cap DS_get_ds(totals[k].pair[1], totals[k].pair[2])))]]

(* the call get_initial_routeset(n_routes) up to the while loop *)
StartInitialRouteset(ds, n_routes) ==
    [pc |-> "while", ds |-> ds, n_routes |-> n_routes, routes |-> <<>>,
     totals |-> [k \in 1..Cardinality(ds) |->
                   [pair |-> SetToSortedSeq(ds)[k],
                    total |-> InitialTotal(SetToSortedSeq(ds)[k])]],
     newly_satisfied |-> {}, i |-> 0]

(* run: the frame of one Algorithm run: the population P and the list Q   *)
(* of _run as lists of slots, the children C of the last crossover that   *)
(* are still to be mutated and those already mutated, the parents and the *)
(* to_swap_idxs of that crossover, the count i of finished iterations,    *)
(* the keys ds of the DS table, the position pc, and the parameters       *)
(* pop_size and elite_size that __init__ read from the configuration      *)
NotRunning ==
    [pc |-> "idle", P |-> <<>>, Q |-> <<>>, C |-> <<>>, mutated |-> <<>>,
     parents |-> <<>>, to_swap_idxs |-> {}, i |-> 0, ds |-> {},
     pop_size |-> pop_size, elite_size |-> elite_size]

(* ------------------------------ the state ------------------------------ *)
(* heap[a]: the objects allocated for slot a.  ind[i]: the individual in  *)
(* slot i, its object fields given as addresses.  last: the last call.    *)
(* nops: the number of mutating calls made so far.                        *)
Load(i) ==
    [nv |-> heap[ind[i].gtG].gtG.nv,
     edges |-> heap[ind[i].gtG].gtG.edges,
     vertex_to_stop |-> heap[ind[i].vertex_to_stop].vertex_to_stop,
     routes |-> heap[ind[i].routes].routes,
     routes_order |-> heap[ind[i].routes].routes_order,
     stops |-> heap[ind[i].stops].stops,
     routes_changed |-> ind[i].routes_changed,
     fitness |-> ind[i].fitness,
     report |-> ind[i].report,
     err |-> err]

Stored(i, g) ==
    /\ heap' = [a \in Inds |->
         [gtG |-> IF a = ind[i].gtG THEN [nv |-> g.nv, edges |-> g.edges]
                  ELSE heap[a].gtG,
          vertex_to_stop |-> IF a = ind[i].vertex_to_stop THEN g.vertex_to_stop
                             ELSE heap[a].vertex_to_stop,
          routes |-> IF a = ind[i].routes THEN g.routes ELSE heap[a].routes,
          routes_order |-> IF a = ind[i].routes THEN g.routes_order
                           ELSE heap[a].routes_order,
          stops |-> IF a = ind[i].stops THEN g.stops ELSE heap[a].stops]]
    /\ ind' = [ind EXCEPT ![i].routes_changed = g.routes_changed,
                          ![i].fitness = g.fitness,
                          ![i].report = g.report]
    /\ err' = g.err

Called(op, i, stop_id, route_id, route) ==
    /\ err = None
    /\ UNCHANGED <<irs, run>>
    /\ last' = [op |-> op, self |-> i, stop_id |-> stop_id,
                route_id |-> route_id, route |-> route]

(* a call of a method decorated with _routes_changed; nops counts them *)
Call(op, i, stop_id, route_id, route) ==
    /\ Called(op, i, stop_id, route_id, route)
    /\ nops' = nops + 1

NewObjects ==
    [gtG |-> [nv |-> 0, edges |-> EmptyBag], vertex_to_stop |-> EmptyDict,
     routes |-> EmptyDict, routes_order |-> <<>>, stops |-> EmptyDict]

Init ==
    /\ heap = [a \in Inds |-> NewObjects]
    /\ ind = [i \in Inds |->
                [gtG |-> i, vertex_to_stop |-> i, routes |-> i, stops |-> i,
                 routes_changed |-> NewRouteSetGraph.routes_changed,
                 fitness |-> NewRouteSetGraph.fitness,
                 report |-> NewRouteSetGraph.report]]
    /\ err = None
    /\ nops = 0
    /\ last = [op |-> "init", self |-> 0, stop_id |-> 0, route_id |-> -1,
               route |-> <<>>]
    /\ irs = NotCalled
    /\ run = NotRunning

(* the road graph: a one-way line 1 -> 2 -> ... over the stops; the       *)
(* routes handed to add_route and replace_route are its paths             *)
RoadPath(a, b) == [k \in 1..(b - a + 1) |-> a + k - 1]

RouteInputs == {RoadPath(a, b) : a \in StopIds, b \in StopIds} \ {<<>>}

AddRoute(i, route) ==
    /\ Call("add_route", i, 0, -1, route)
    /\ nroutes(Load(i)) < MaxRoutes
    /\ Stored(i, add_route(Load(i), route, NoRouteId))

AppendStop(i, stop_id, route_id) ==
    /\ Call("append_stop", i, stop_id, route_id, <<>>)
    /\ route_id \in DOMAIN Load(i).routes
    /\ Stored(i, append_stop(Load(i), stop_id, route_id))

PrependStop(i, stop_id, route_id) ==
    /\ Call("prepend_stop", i, stop_id, route_id, <<>>)
    /\ route_id \in DOMAIN Load(i).routes
    /\ Stored(i, prepend_stop(Load(i), stop_id, route_id))

RemoveNode(i, stop_id, route_id) ==
    /\ Call("remove_node", i, stop_id, route_id, <<>>)
    /\ route_id \in DOMAIN Load(i).routes
    /\ stop_id \in Range(Load(i).routes[route_id])
    /\ Stored(i, remove_node(Load(i), stop_id, route_id))

RemoveRoute(i, route_id) ==
    /\ Call("remove_route", i, 0, route_id, <<>>)
    /\ route_id \in DOMAIN Load(i).routes
    /\ Stored(i, remove_route(Load(i), route_id))

ReplaceRoute(i, route_id, new_route) ==
    /\ Call("replace_route", i, 0, route_id, new_route)
    /\ route_id \in DOMAIN Load(i).routes
    /\ Stored(i, replace_route(Load(i), route_id, new_route))

GetFitness(i) ==
    /\ Called("get_fitness", i, 0, -1, <<>>)
    /\ UNCHANGED nops
    /\ Stored(i, get_fitness(Load(i)))

(* ind[dst] = ind[src].copy() *)
Copy(src, dst) ==
    /\ Called("copy", dst, 0, -1, <<>>)
    /\ src # dst
    /\ LET refs == copy_refs(src, dst)
           g == Load(src)
       IN /\ heap' = [heap EXCEPT ![dst] =
                [gtG |-> IF refs.gtG = dst THEN [nv |-> g.nv, edges |-> g.edges]
                         ELSE @.gtG,
                 vertex_to_stop |-> IF refs.vertex_to_stop = dst
                                    THEN g.vertex_to_stop ELSE @.vertex_to_stop,
                 routes |-> IF refs.routes = dst THEN g.routes ELSE @.routes,
                 routes_order |-> IF refs.routes = dst THEN g.routes_order
                                  ELSE @.routes_order,
                 stops |-> IF refs.stops = dst THEN g.stops ELSE @.stops]]
          /\ ind' = [ind EXCEPT ![dst] =
                [gtG |-> refs.gtG, vertex_to_stop |-> refs.vertex_to_stop,
                 routes |-> refs.routes, stops |-> refs.stops,
                 routes_changed |-> g.routes_changed,
                 fitness |-> g.fitness,
                 report |-> NewRouteSetGraph.report]]
    /\ UNCHANGED <<err, nops>>

(* one individual under every mutating call of the RouteSetGraph          *)
(* interface                                                              *)
Next ==
    /\ nops < MaxOps
    /\ \/ \E route \in RouteInputs : AddRoute(1, route)
       \/ \E s \in StopIds, r \in RouteIds : AppendStop(1, s, r)
       \/ \E s \in StopIds, r \in RouteIds : PrependStop(1, s, r)
       \/ \E s \in StopIds, r \in RouteIds : RemoveNode(1, s, r)
       \/ \E r \in RouteIds : RemoveRoute(1, r)
       \/ \E r \in RouteIds, route \in RouteInputs : ReplaceRoute(1, r, route)

Spec == Init /\ [][Next]_vars

(* one individual under the calls that add, remove and replace whole      *)
(* routes                                                                 *)
NextRoutes ==
    /\ nops < MaxOpsRoutes
    /\ \/ \E route \in RouteInputs : AddRoute(1, route)
       \/ \E r \in RouteIds : RemoveRoute(1, r)
       \/ \E r \in RouteIds, route \in RouteInputs : ReplaceRoute(1, r, route)

SpecRoutes == Init /\ [][NextRoutes]_vars

(* an individual that is built and evaluated, and its clone in slot 2     *)
(* under every mutating call; slot 2 gets its first route from copy()     *)
NextCopy ==
    /\ nops < MaxOpsCopy
    /\ \/ \E route \in RouteInputs : AddRoute(1, route)
       \/ GetFitness(1)
       \/ Copy(1, 2)
       \/ \E route \in RouteInputs :
             DOMAIN Load(2).routes # {} /\ AddRoute(2, route)
       \/ \E s \in StopIds, r \in RouteIds : AppendStop(2, s, r)
       \/ \E s \in StopIds, r \in RouteIds : PrependStop(2, s, r)
       \/ \E s \in StopIds, r \in RouteIds : RemoveNode(2, s, r)
       \/ \E r \in RouteIds : RemoveRoute(2, r)
       \/ \E r \in RouteIds, route \in RouteInputs : ReplaceRoute(2, r, route)
       \/ GetFitness(2)

SpecCopy == Init /\ [][NextCopy]_vars

(* the lists with a repeated stop that a caller can hand to add_route *)
HasRepeat(route) ==
    \E j \in DOMAIN route, k \in DOMAIN route : j < k /\ route[j] = route[k]

DupRouteInputs ==
    {route \in [1..2 -> StopIds] \cup [1..3 -> StopIds] : HasRepeat(route)}

(* one individual under the calls that put stops on routes, add_route     *)
(* being handed lists with and without a repeated stop                    *)
NextDup ==
    /\ nops < MaxOpsDup
    /\ \/ \E route \in RouteInputs \cup DupRouteInputs : AddRoute(1, route)
       \/ \E s \in StopIds, r \in RouteIds : AppendStop(1, s, r)
       \/ \E s \in StopIds, r \in RouteIds : PrependStop(1, s, r)

SpecDup == Init /\ [][NextDup]_vars

(* the routes of the small instances: the segments of the line            *)
(* 1 -> 2 -> 3 -> 4 -> 5 of one and of two edges                          *)
FitRouteInputs ==
    {<<1, 2>>, <<2, 3>>, <<3, 4>>, <<4, 5>>, <<1, 2, 3>>, <<3, 4, 5>>}

(* for rid, r in enumerate(routes): self.initial_routeset.add_route(r) *)
InitialAddRoute(i, route) ==
    /\ Call("add_route", i, 0, -1, route)
    /\ nroutes(Load(i)) < MaxFitRoutes
    /\ Stored(i, add_route(Load(i), route, NoRouteId))

(* a route set built route by route and evaluated *)
NextFit ==
    \/ \E route \in FitRouteInputs : InitialAddRoute(1, route)
    \/ GetFitness(1)

SpecFit == Init /\ [][NextFit]_vars

(* one get_initial_routeset(n_routes) call, for every DS table over the  *)
(* stops and every n_routes up to MaxK                                    *)
InitIRS ==
    /\ heap = [a \in Inds |-> NewObjects]
    /\ ind = [i \in Inds |->
                [gtG |-> i, vertex_to_stop |-> i, routes |-> i, stops |-> i,
                 routes_changed |-> NewRouteSetGraph.routes_changed,
                 fitness |-> NewRouteSetGraph.fitness,
                 report |-> NewRouteSetGraph.report]]
    /\ err = None
    /\ nops = 0
    /\ last = [op |-> "init", self |-> 0, stop_id |-> 0, route_id |-> -1,
               route |-> <<>>]
    /\ \E ds \in (SUBSET DS_AllPairs) \ {{}}, n_routes \in 1..MaxK :
          irs = StartInitialRouteset(ds, n_routes)
    /\ run = NotRunning

(* while i < n_routes: the subtraction and the sort, or the return *)
WhileTest ==
    /\ irs.pc = "while"
    /\ irs' = IF irs.i < irs.n_routes
              THEN [irs EXCEPT !.pc = "select",
                               !.totals = SortDesc(
                                  SubtractNewlySatisfied(@, irs.newly_satisfied))]
              ELSE [irs EXCEPT !.pc = "return"]
    /\ UNCHANGED <<heap, ind, err, nops, last, run>>

(* o, d = list(totals.keys())[0] and a path that exists: the route is     *)
(* appended and counted                                                   *)
AppendPath ==
    /\ irs.pc = "select"
    /\ LET od == irs.totals[1].pair
           path == shortest_path(od[1], od[2])
       IN /\ path # <<>>
          /\ irs' = [irs EXCEPT !.pc = "while",
                                !.routes = Append(@, path),
                                !.newly_satisfied = DS_get_ds(od[1], od[2]),
                                !.i = @ + 1]
    /\ UNCHANGED <<heap, ind, err, nops, last, run>>

(* o, d = list(totals.keys())[0] and path == []: continue *)
SkipNoPath ==
    /\ irs.pc = "select"
    /\ LET od == irs.totals[1].pair
       IN shortest_path(od[1], od[2]) = <<>>
    /\ irs' = [irs EXCEPT !.pc = "while"]
    /\ UNCHANGED <<heap, ind, err, nops, last, run>>

NextIRS == WhileTest \/ AppendPath \/ SkipNoPath

SpecIRS == InitIRS /\ [][NextIRS]_vars /\ WF_vars(NextIRS)

(* ---------------------------- class Algorithm -------------------------- *)
(* self.initial_routeset *)
initial_routeset == pop_size + 3

(* the heap, the individuals and the pending exception as one value *)
St == [heap |-> heap, ind |-> ind, err |-> err]

LoadIn(st, i) ==
    [nv |-> st.heap[st.ind[i].gtG].gtG.nv,
     edges |-> st.heap[st.ind[i].gtG].gtG.edges,
     vertex_to_stop |-> st.heap[st.ind[i].vertex_to_stop].vertex_to_stop,
     routes |-> st.heap[st.ind[i].routes].routes,
     routes_order |-> st.heap[st.ind[i].routes].routes_order,
     stops |-> st.heap[st.ind[i].stops].stops,
     routes_changed |-> st.ind[i].routes_changed,
     fitness |-> st.ind[i].fitness,
     report |-> st.ind[i].report,
     err |-> st.err]

(* the operators on a store take it and the individual as values, s and  *)
(* h, that are computed once                                              *)
StoreIn(st, i, g) ==
    LET put(s, h) ==
          [heap |-> [a \in Inds |->
               [gtG |-> IF a = s.ind[i].gtG THEN [nv |-> h.nv, edges |-> h.edges]
                        ELSE s.heap[a].gtG,
                vertex_to_stop |-> IF a = s.ind[i].vertex_to_stop THEN h.vertex_to_stop
                                   ELSE s.heap[a].vertex_to_stop,
                routes |-> IF a = s.ind[i].routes THEN h.routes ELSE s.heap[a].routes,
                routes_order |-> IF a = s.ind[i].routes THEN h.routes_order
                                 ELSE s.heap[a].routes_order,
                stops |-> IF a = s.ind[i].stops THEN h.stops ELSE s.heap[a].stops]],
           ind |-> [s.ind EXCEPT ![i].routes_changed = h.routes_changed,
                                 ![i].fitness = h.fitness,
                                 ![i].report = h.report],
           err |-> h.err]
    IN CHOOSE r \in {put(s, h) : s \in {st}, h \in {g}} : TRUE

(* slot dst = slot src .copy() *)
CopyIn(st, src, dst) ==
    LET refs == copy_refs(src, dst)
        new(s, g) ==
          IF s.err # None THEN s
          ELSE [heap |-> [s.heap EXCEPT ![dst] =
                   [gtG |-> IF refs.gtG = dst THEN [nv |-> g.nv, edges |-> g.edges]
                            ELSE @.gtG,
                    vertex_to_stop |-> IF refs.vertex_to_stop = dst
                                       THEN g.vertex_to_stop ELSE @.vertex_to_stop,
                    routes |-> IF refs.routes = dst THEN g.routes ELSE @.routes,
                    routes_order |-> IF refs.routes = dst THEN g.routes_order
                                     ELSE @.routes_order,
                    stops |-> IF refs.stops = dst THEN g.stops ELSE @.stops]],
                ind |-> [s.ind EXCEPT ![dst] =
                   [gtG |-> refs.gtG, vertex_to_stop |-> refs.vertex_to_stop,
                    routes |-> refs.routes, stops |-> refs.stops,
                    routes_changed |-> g.routes_changed,
                    fitness |-> g.fitness,
                    report |-> NewRouteSetGraph.report]],
                err |-> s.err]
    IN CHOOSE r \in {new(s, LoadIn(s, src)) : s \in {st}} : TRUE

(* a slot whose individual is no longer referenced *)
FreeIn(st, i) ==
    LET free(s) ==
          [heap |-> [s.heap EXCEPT ![i] = NewObjects],
           ind |-> [s.ind EXCEPT ![i] =
                      [gtG |-> i, vertex_to_stop |-> i, routes |-> i, stops |-> i,
                       routes_changed |-> NewRouteSetGraph.routes_changed,
                       fitness |-> NewRouteSetGraph.fitness,
                       report |-> NewRouteSetGraph.report]],
           err |-> s.err]
    IN CHOOSE r \in {free(s) : s \in {st}} : TRUE

RECURSIVE FreeAll(_, _)
FreeAll(st, slots) ==
    IF slots = {} THEN st
    ELSE LET i == CHOOSE x \in slots : TRUE
         IN FreeAll(FreeIn(st, i), slots \ {i})

(* a < b for two fitness values *)
RatLess(a, b) == a.num * b.den < b.num * a.den

RECURSIVE EvaluateAll(_, _)
(* p.get_fitness() for every p of the list population, in order *)
EvaluateAll(st, population) ==
    CHOOSE r \in
      {IF population = <<>> \/ s.err # None THEN s
       ELSE EvaluateAll(StoreIn(s, Head(population),
                                get_fitness(LoadIn(s, Head(population)))),
                        Tail(population)) : s \in {st}} : TRUE

(* key(x) < key(y) for the keys p.get_fitness() of two individuals; a     *)
(* comparison with nan is false                                           *)
FLess(st, x, y) == RatLess(st.ind[x].fitness, st.ind[y].fitness)

(* the length of the run list.sort finds at the start of a: strictly      *)
(* falling when a[1] < a[0], else not falling                             *)
RunLen(st, a) ==
    LET desc == FLess(st, a[2], a[1])
        goes(m) == IF desc THEN FLess(st, a[m], a[m - 1])
                   ELSE ~FLess(st, a[m], a[m - 1])
    IN IF Len(a) < 2 THEN Len(a)
       ELSE CHOOSE n \in 2..Len(a) :
              /\ \A m \in 2..n : goes(m)
              /\ n = Len(a) \/ ~goes(n + 1)

RECURSIVE BinarySearch(_, _, _, _, _)
(* the 0-based place of pivot in the sorted list, searched in [l, r) *)
BinarySearch(st, sorted, pivot, l, r) ==
    IF l >= r THEN l
    ELSE LET q == l + ((r - l) \div 2)
         IN IF FLess(st, pivot, sorted[q + 1])
            THEN BinarySearch(st, sorted, pivot, l, q)
            ELSE BinarySearch(st, sorted, pivot, q + 1, r)

RECURSIVE BinarySort(_, _, _)
(* binary insertion of the items of rest into the sorted list *)
BinarySort(st, sorted, rest) ==
    IF rest = <<>> THEN sorted
    ELSE LET l == BinarySearch(st, sorted, Head(rest), 0, Len(sorted))
         IN BinarySort(st,
                       SubSeq(sorted, 1, l) \o <<Head(rest)>>
                         \o SubSeq(sorted, l + 1, Len(sorted)),
                       Tail(rest))

(* sorted(population, key=lambda p: p.get_fitness()) once every fitness   *)
(* is stored, as list.sort sorts a short list: the first run, reversed    *)
(* when it falls, then binary insertion.  Without nan keys this is the    *)
(* list by rising fitness with equal ones in the order they had           *)
SortedByFitness(st, population) ==
    LET n == RunLen(st, population)
        run0 == SubSeq(population, 1, n)
    IN IF Len(population) < 2 THEN population
       ELSE BinarySort(st,
                       IF FLess(st, population[2], population[1])
                       THEN Reverse(run0) ELSE run0,
                       SubSeq(population, n + 1, Len(population)))

(* get_fittest(population, n): the store after the fitness calls and the  *)
(* first n of the sorted list                                             *)
get_fittest(st, population, n) ==
    LET first(sorted) == SubSeq(sorted, 1, IF n < Len(sorted) THEN n ELSE Len(sorted))
    IN CHOOSE r \in
         {[st |-> st1, fittest |-> first(SortedByFitness(st1, population))]
            : st1 \in {EvaluateAll(st, population)}} : TRUE

(* Metrics.get_row(P) after best = self.get_fittest(P, 1)[0]: the        *)
(* exceptions of reading the report of best                               *)
get_row(st, best) ==
    LET report == st.ind[best].report
    IN IF st.err # None THEN st
       ELSE IF report = NoReport THEN [st EXCEPT !.err = "TypeError"]
       ELSE IF \/ report.satisfied_demand = 0
               \/ report.satisfied_demand + report.unsatisfied_demand = 0
               \/ report.nsatisfied_stops + report.nunsatisfied_stops = 0
               \/ report.nsatisfied_od_pairs + report.nunsatisfied_od_pairs = 0
            THEN [st EXCEPT !.err = "ZeroDivisionError"]
       ELSE st

(* DS().origins, DS().get_dests(o), DS().get_ds_total(o, d) of the table  *)
(* with the keys ds                                                       *)
DS_origins(ds) == {p[1] : p \in ds}

DS_get_dests(ds, o) == {p[2] : p \in {q \in ds : q[1] = o}}

DS_get_ds_total(o, d) == InitialTotal(<<o, d>>)

(* the DS tables of the runs: without and with a pair whose road path is  *)
(* gone                                                                   *)
DSTables == {{<<1, 2>>, <<1, 3>>}, {<<1, 2>>, <<1, 3>>, <<3, 1>>}}

(* route[stop_seq] for stop_seq 0 and -1 *)
Terminal(route, stop_seq) == IF stop_seq = 0 THEN route[1] ELSE route[Len(route)]

(* a call on the individual p that a mutation has drawn *)
CallOf(fn, stop_id, route_id, route) ==
    [fn |-> fn, stop_id |-> stop_id, route_id |-> route_id, route |-> route]

(* small_mod_delete(p, route_id, stop_seq): the remove_node call *)
small_mod_delete(g, route_id, stop_seq) ==
    CallOf("remove_node", Terminal(g.routes[route_id], stop_seq), route_id, <<>>)

(* small_mod_extend(p, route_id, stop_seq): one prepend_stop or           *)
(* append_stop call per candidate that np.random.choice can draw, no call *)
(* when there is no candidate                                             *)
small_mod_extend(g, route_id, stop_seq) ==
    LET route == g.routes[route_id]
        sid == Terminal(route, stop_seq)
        candidates == (IF stop_seq = 0 THEN in_neighbors(sid) ELSE out_neighbors(sid))
                      \ Range(route)
    IN IF candidates = {} THEN {CallOf("pass", 0, route_id, <<>>)}
       ELSE {CallOf(IF stop_seq = 0 THEN "prepend_stop" ELSE "append_stop",
                    new_sid, route_id, <<>>) : new_sid \in candidates}

(* small_mod(p, route_idx): the calls for every draw of node_idx and      *)
(* mod_fn                                                                 *)
small_mod(g, route_idx) ==
    UNION {(IF Len(g.routes[route_idx]) <= min_route_size THEN {}
            ELSE {small_mod_delete(g, route_idx, node_idx)})
           \cup small_mod_extend(g, route_idx, node_idx)
           : node_idx \in {0, -1}}

(* big_mod(p, route_idx): the calls for every draw of node_idx and k; for *)
(* a route with no terminal in DS().origins the removal of both ends, or  *)
(* no call when it has one stop                                           *)
big_mod(g, route_idx, ds) ==
    LET route == g.routes[route_idx]
        first_in == Terminal(route, 0) \in DS_origins(ds)
        last_in == Terminal(route, -1) \in DS_origins(ds)
        node_idxs == IF last_in THEN (IF first_in THEN {0, -1} ELSE {-1})
                     ELSE IF first_in THEN {0} ELSE {}
    IN IF node_idxs = {}
       THEN {CallOf(IF Len(route) = 1 THEN "pass" ELSE "big_mod_delete",
                    0, route_idx, <<>>)}
       ELSE UNION {{CallOf("replace_route", 0, route_idx,
                           shortest_path(Terminal(route, node_idx), k))
                     : k \in {d \in DS_get_dests(ds, Terminal(route, node_idx)) :
                                DS_get_ds_total(Terminal(route, node_idx), d) > 0}}
                   : node_idx \in node_idxs}

(* get_route_invds(route): 1 / DS().get_ds_total(o, d) for the terminals  *)
(* of the route, 2 when the table has no such key; for a total of 0 the   *)
(* value is 1/0, at which the division raises                             *)
get_route_invds(route, ds) ==
    IF <<Terminal(route, 0), Terminal(route, -1)>> \notin ds THEN Rat(2, 1)
    ELSE IF DS_get_ds_total(Terminal(route, 0), Terminal(route, -1)) = 0
         THEN [num |-> 1, den |-> 0]
    ELSE Rat(1, DS_get_ds_total(Terminal(route, 0), Terminal(route, -1)))

(* mutation_probs of mutation(p): one weight per route of p.get_routes(), *)
(* in the order of the dict; entry route_idx + 1 is the weight with which *)
(* np.random.choice draws route_idx                                       *)
mutation_probs(g, ds) ==
    [j \in 1..Len(g.routes_order) |-> get_route_invds(g.routes[g.routes_order[j]], ds)]

(* mutation(p): get_route_invds reads route[0] and route[-1] of every     *)
(* route, which raises for an empty one; then the calls for every draw of *)
(* route_idx and mutate_fn                                                *)
mutation(g, ds) ==
    IF \E r \in DOMAIN g.routes : g.routes[r] = <<>>
    THEN {CallOf("IndexError", 0, -1, <<>>)}
    ELSE IF \E j \in DOMAIN mutation_probs(g, ds) : mutation_probs(g, ds)[j].den = 0
    THEN {CallOf("ZeroDivisionError", 0, -1, <<>>)}
    ELSE UNION {small_mod(g, route_idx) \cup big_mod(g, route_idx, ds)
                : route_idx \in 0..(nroutes(g) - 1)}

(* p.remove_node(p.get_route(route_idx)[0], route_idx);                   *)
(* p.remove_node(p.get_route(route_idx)[-1], route_idx)                   *)
big_mod_delete(g, route_idx) ==
    CHOOSE r \in
      {IF ~Ok(g1) THEN g1
       ELSE IF g1.routes[route_idx] = <<>> THEN Raise(g1, "IndexError")
       ELSE remove_node(g1, Terminal(g1.routes[route_idx], -1), route_idx)
         : g1 \in {remove_node(g, Terminal(g.routes[route_idx], 0), route_idx)}}
      : TRUE

(* the individual after the call that the mutation has drawn *)
Perform(g, call) ==
    CASE call.fn = "remove_node" -> remove_node(g, call.stop_id, call.route_id)
      [] call.fn = "prepend_stop" -> prepend_stop(g, call.stop_id, call.route_id)
      [] call.fn = "append_stop" -> append_stop(g, call.stop_id, call.route_id)
      [] call.fn = "replace_route" -> replace_route(g, call.route_id, call.route)
      [] call.fn = "big_mod_delete" -> big_mod_delete(g, call.route_id)
      [] call.fn = "IndexError" -> Raise(g, "IndexError")
      [] call.fn = "ZeroDivisionError" -> Raise(g, "ZeroDivisionError")
      [] call.fn = "pass" -> g

RECURSIVE ReplaceRoutes(_, _, _)
(* p.replace_route(idx, route) for the pairs of p and route in todo, in   *)
(* order                                                                  *)
ReplaceRoutes(st, idx, todo) ==
    CHOOSE r \in
      {IF todo = <<>> \/ s.err # None THEN s
       ELSE ReplaceRoutes(
              StoreIn(s, Head(todo).p,
                      replace_route(LoadIn(s, Head(todo).p), idx, Head(todo).route)),
              idx, Tail(todo)) : s \in {st}} : TRUE

(* the body of the loop of crossover for one idx, with rp1 read after     *)
(* p1.replace_route(idx, rp2)                                             *)
SwapRoute_Aliased(st, p1, p2, idx) ==
    LET rp1 == LoadIn(st, p1).routes[idx]
        rp2 == LoadIn(st, p2).routes[idx]
    IN IF st.err # None \/ rp1 = rp2 THEN st
       ELSE ReplaceRoutes(st, idx, <<[p |-> p1, route |-> rp2],
                                     [p |-> p2, route |-> rp2]>>)

(* the body of the loop of crossover for one idx: rp1 and rp2 are read    *)
(* before the two replace_route calls                                     *)
SwapRoute(st, p1, p2, idx) ==
    LET rp1 == LoadIn(st, p1).routes[idx]
        rp2 == LoadIn(st, p2).routes[idx]
    IN IF st.err # None \/ rp1 = rp2 THEN st
       ELSE ReplaceRoutes(st, idx, <<[p |-> p1, route |-> rp2],
                                     [p |-> p2, route |-> rp1]>>)

RECURSIVE SwapRoutes(_, _, _, _)
(* for idx in to_swap_idxs, in rising order *)
SwapRoutes(st, p1, p2, to_swap_idxs) ==
    CHOOSE r \in
      {IF to_swap_idxs = {} THEN s
       ELSE SwapRoutes(SwapRoute(s, p1, p2, SetMin(to_swap_idxs)), p1, p2,
                       to_swap_idxs \ {SetMin(to_swap_idxs)}) : s \in {st}} : TRUE

RECURSIVE CopyAll(_, _, _)
(* slot = src.copy() for every slot of the list slots *)
CopyAll(st, src, slots) ==
    IF slots = <<>> THEN st
    ELSE CopyAll(CopyIn(st, src[1], Head(slots)), Tail(src), Tail(slots))

(* crossover(p1, p2, pswap) with the copies put in the slots c1 and c2 *)
crossover(st, p1, p2, c1, c2, to_swap_idxs) ==
    SwapRoutes(CopyAll(st, <<p1, p2>>, <<c1, c2>>), c1, c2, to_swap_idxs)

RECURSIVE AddRoutes(_, _)
(* for rid, r in enumerate(routes): self.initial_routeset.add_route(r) *)
AddRoutes(g, routes) ==
    IF routes = <<>> THEN g
    ELSE CHOOSE r \in {AddRoutes(h, Tail(routes))
                         : h \in {add_route(g, Head(routes), NoRouteId)}} : TRUE

(* the route lists handed to run_from_routes *)
InitialRoutes == {<<<<1, 2, 3>>, <<2, 3>>>>, <<<<1, 2>>, <<2, 3>>>>}

(* the step ends with the store st *)
Took(st) ==
    \E s \in {st} :
       /\ heap' = s.heap
       /\ ind' = s.ind
       /\ err' = s.err

(* a step of the run: op is the function it is in, i the individual *)
Ran(op, i) ==
    /\ err = None
    /\ last' = [op |-> op, self |-> i, stop_id |-> 0, route_id |-> -1,
                route |-> <<>>]
    /\ UNCHANGED irs

(* run_from_routes(routes, niterations) up to the call of _run: the       *)
(* initial route set and the population of its copies                     *)
RunFromRoutes(routes, ds) ==
    /\ Ran("run_from_routes", initial_routeset)
    /\ run.pc = "idle"
    /\ LET P == [k \in 1..run.pop_size |-> k]
       IN /\ Took(CopyAll(StoreIn(St, initial_routeset,
                                  AddRoutes(LoadIn(St, initial_routeset), routes)),
                          [k \in 1..run.pop_size |-> initial_routeset], P))
          /\ run' = [run EXCEPT !.pc = "row", !.P = P, !.ds = ds]
    /\ UNCHANGED nops

(* Algorithm.__init__: pop_size and elite_size are set from the           *)
(* configuration file                                                     *)
LoadConfig(config) ==
    /\ err = None
    /\ run.pc = "idle"
    /\ <<run.pop_size, run.elite_size>> # <<config.pop_size, config.elite_size>>
    /\ run' = [run EXCEPT !.pop_size = config.pop_size,
                          !.elite_size = config.elite_size]
    /\ last' = [op |-> "__init__", self |-> 0, stop_id |-> 0, route_id |-> -1,
                route |-> <<>>]
    /\ UNCHANGED <<heap, ind, err, nops, irs>>

(* the lists np.random.choice(population, tournament_size, replace=False) *)
(* can return                                                             *)
Tournaments ==
    {t \in [1..tournament_size -> Range(run.P)] :
       \A j, k \in 1..tournament_size : j # k => t[j] # t[k]}

(* a get_fittest(population, n) call of the run: for the row of           *)
(* metrics.get_row(self.P) (n = 1, and the report of the best is read),   *)
(* for Q = self.get_fittest(self.P, self.elite_size) at the start of an   *)
(* iteration, and for P1, P2 = self.get_fittest(tournament, 2)            *)
GetFittest(population, n) ==
    /\ Ran("get_fittest", 0)
    /\ CASE run.pc = "row" -> population = run.P /\ n = 1
         [] run.pc = "iteration" ->
              population = run.P /\ n = run.elite_size /\ run.i < niterations
         [] run.pc = "tournament" -> population \in Tournaments /\ n = 2
         [] OTHER -> FALSE
    /\ \E r \in {get_fittest(St, population, n)} :
          CASE run.pc = "row" ->
                 /\ Took(get_row(r.st, r.fittest[1]))
                 /\ run' = [run EXCEPT !.pc = "iteration"]
            [] run.pc = "iteration" ->
                 /\ Took(r.st)
                 /\ run' = [run EXCEPT
                              !.pc = IF (run.pop_size - run.elite_size) \div 2 = 0
                                     THEN "assign" ELSE "tournament",
                              !.Q = r.fittest]
            [] run.pc = "tournament" ->
                 /\ Took(r.st)
                 /\ run' = [run EXCEPT !.pc = "crossover", !.parents = r.fittest]
    /\ UNCHANGED nops

(* the slots that hold no individual of P, Q or the children *)
FreeSlots ==
    Inds \ (Range(run.P) \cup Range(run.Q) \cup Range(run.mutated)
            \cup {initial_routeset})

(* C1, C2 = self.crossover(P1, P2, self.pswap) *)
Crossover(to_swap_idxs) ==
    /\ Ran("crossover", 0)
    /\ run.pc = "crossover"
    /\ to_swap_idxs \subseteq 0..(nroutes(LoadIn(St, run.parents[1])) - 1)
    /\ \E c1 \in {SetMin(FreeSlots)}, c2 \in {SetMin(FreeSlots \ {SetMin(FreeSlots)})} :
          /\ Took(crossover(St, run.parents[1], run.parents[2], c1, c2, to_swap_idxs))
          /\ run' = [run EXCEPT !.pc = "mutation", !.C = <<c1, c2>>,
                                !.to_swap_idxs = to_swap_idxs]
    /\ UNCHANGED nops

(* self.mutation(C) for the next child of Q.extend([self.mutation(C1),    *)
(* self.mutation(C2)]); after the second one Q is extended.  nops counts  *)
(* the mutation calls of the run                                          *)
MutationWithin(limit) ==
    /\ run.pc = "mutation"
    /\ Ran("mutation", Head(run.C))
    /\ nops < limit
    /\ nops' = nops + 1
    /\ \E g \in {LoadIn(St, Head(run.C))} :
          \E call \in mutation(g, run.ds) :
             Took(StoreIn(St, Head(run.C), Perform(g, call)))
    /\ run' = IF Tail(run.C) # <<>>
              THEN [run EXCEPT !.C = Tail(@), !.mutated = Append(@, Head(run.C)),
                               !.parents = <<>>, !.to_swap_idxs = {}]
              ELSE [run EXCEPT !.C = <<>>, !.mutated = <<>>,
                               !.parents = <<>>, !.to_swap_idxs = {},
                               !.Q = @ \o Append(run.mutated, Head(run.C)),
                               !.pc = IF (Len(run.Q) + Len(run.mutated) + 1
                                            - run.elite_size) \div 2
                                         < (run.pop_size - run.elite_size) \div 2
                                      THEN "tournament" ELSE "assign"]

Mutation == MutationWithin(MaxMutations)

(* self.P = Q; the individuals of the old population that are not in Q    *)
(* are no longer referenced                                               *)
NextGeneration ==
    /\ Ran("_run", 0)
    /\ run.pc = "assign"
    /\ Took(FreeAll(St, Range(run.P) \ Range(run.Q)))
    /\ run' = [run EXCEPT !.pc = "row", !.P = run.Q, !.Q = <<>>, !.i = @ + 1]
    /\ UNCHANGED nops

(* one run_from_routes run of niterations iterations and at most          *)
(* MaxMutations mutation calls                                            *)
NextGA ==
    \/ \E routes \in InitialRoutes, ds \in DSTables : RunFromRoutes(routes, ds)
    \/ \E population \in {run.P} \cup Tournaments, n \in {1, 2, run.elite_size} :
          GetFittest(population, n)
    \/ \E to_swap_idxs \in SUBSET RouteIds : Crossover(to_swap_idxs)
    \/ Mutation
    \/ NextGeneration

SpecGA == Init /\ [][NextGA]_vars

(* one run_from_routes run from the routes [1, 2], [2, 3] with the DS     *)
(* table of the pairs (1, 2) and (1, 3), long enough for two whole        *)
(* iterations                                                             *)
NextLongRun ==
    \/ RunFromRoutes(<<<<1, 2>>, <<2, 3>>>>, {<<1, 2>>, <<1, 3>>})
    \/ \E population \in {run.P} \cup Tournaments, n \in {1, 2, run.elite_size} :
          GetFittest(population, n)
    \/ \E to_swap_idxs \in SUBSET RouteIds : Crossover(to_swap_idxs)
    \/ MutationWithin(MaxMutationsLongRun)
    \/ NextGeneration

SpecLongRun == Init /\ [][NextLongRun]_vars

(* the configurations with 1 <= elite_size <= pop_size *)
Configs ==
    {config \in [pop_size : 1..pop_size, elite_size : 1..pop_size] :
       config.elite_size <= config.pop_size}

(* one run_from_routes run under any of the configurations *)
NextConfig ==
    \/ \E config \in Configs : LoadConfig(config)
    \/ RunFromRoutes(<<<<1, 2>>, <<2, 3>>>>, {<<1, 2>>, <<1, 3>>})
    \/ \E population \in {run.P} \cup Tournaments, n \in {1, 2, run.elite_size} :
          GetFittest(population, n)
    \/ \E to_swap_idxs \in SUBSET RouteIds : Crossover(to_swap_idxs)
    \/ Mutation
    \/ NextGeneration

SpecConfig == Init /\ [][NextConfig]_vars

(* ----------------------- reading a RouteSetGraph ----------------------- *)
(* the stops that appear in at least one route *)
RouteStops(g) == UNION {Range(g.routes[r]) : r \in DOMAIN g.routes}

Vertices(g) == 0..(g.nv - 1)

(* the vertices that vertex_to_stop labels (stop_id, role) *)
VerticesOf(g, stop_id, role) ==
    {v \in Vertices(g) : v \in DOMAIN g.vertex_to_stop
                         /\ g.vertex_to_stop[v].stop_id = stop_id
                         /\ g.vertex_to_stop[v].route_id = role}

(* the route vertices of route r *)
RouteVertices(g, r) ==
    {v \in Vertices(g) : v \in DOMAIN g.vertex_to_stop
                         /\ g.vertex_to_stop[v].route_id = r}

(* the number of edges u -> v, of any duration *)
NEdges(g, u, v) ==
    SetSum(g.edges, {e \in DOMAIN g.edges : e[1] = u /\ e[2] = v})

EdgesBetween(g, u, v) == {e \in DOMAIN g.edges : e[1] = u /\ e[2] = v}

(* exactly one edge u -> v, and its duration is w *)
OneEdge(g, u, v, w) ==
    EdgesBetween(g, u, v) = {Edge(u, v, w)} /\ g.edges[Edge(u, v, w)] = 1

(* the number of edges with both ends in the set S *)
NEdgesWithin(g, S) ==
    SetSum(g.edges, {e \in DOMAIN g.edges : e[1] \in S /\ e[2] \in S})

(* the synchronous value of the graph, routes and directories of g *)
Structure(g) ==
    [nv |-> g.nv, edges |-> g.edges, vertex_to_stop |-> g.vertex_to_stop,
     routes |-> g.routes, stops |-> g.stops]

(* C1: when no call has raised, the keys of the stops index are exactly   *)
(* the stops that appear in some route, and no origin or destination      *)
(* vertex is left for a stop that is in no route.                         *)
C1_StopsIndexIsRouteStops ==
    err = None =>
      \A i \in Inds :
        LET g == Load(i)
        IN /\ DOMAIN g.stops = RouteStops(g)
           /\ \A s \in StopIds \ RouteStops(g) :
                VerticesOf(g, s, ORIGIN) = {} /\ VerticesOf(g, s, DEST) = {}

(* the in-vehicle edges of route r are exactly the chain of its stops *)
ChainOK(g, r) ==
    LET route == g.routes[r]
    IN /\ \A k \in 1..Len(route) :
            /\ route[k] \in DOMAIN g.stops
            /\ r \in DOMAIN g.stops[route[k]].route_nodes
       /\ \A k \in 1..(Len(route) - 1) :
            NEdges(g, get_route_vertex(g, route[k], r),
                      get_route_vertex(g, route[k + 1], r)) = 1
       /\ NEdgesWithin(g, RouteVertices(g, r)) =
            (IF Len(route) = 0 THEN 0 ELSE Len(route) - 1)

(* C2: when no call has raised, for every route r the edges between route *)
(* vertices of r are exactly one edge per consecutive pair of its stops.  *)
C2_RouteChain ==
    err = None =>
      \A i \in Inds : \A r \in DOMAIN Load(i).routes : ChainOK(Load(i), r)

IsRouteVertex(g, v) ==
    v \in DOMAIN g.vertex_to_stop /\ g.vertex_to_stop[v].route_id >= 0

(* C3: when no call has raised, two route vertices of one stop on         *)
(* different routes have exactly one edge each way, of weight             *)
(* transfer_time; route vertices of different stops and different routes  *)
(* have no edge, and no route vertex has an edge to itself.               *)
C3_TransferEdges ==
    err = None =>
      \A i \in Inds :
        LET g == Load(i)
            RV == {v \in Vertices(g) : IsRouteVertex(g, v)}
        IN \A u \in RV, v \in RV :
             LET a == g.vertex_to_stop[u]
                 b == g.vertex_to_stop[v]
             IN /\ (u = v) => EdgesBetween(g, u, v) = {}
                /\ (u # v /\ a.stop_id = b.stop_id /\ a.route_id # b.route_id) =>
                      OneEdge(g, u, v, transfer_time)
                /\ (a.stop_id # b.stop_id /\ a.route_id # b.route_id) =>
                      EdgesBetween(g, u, v) = {}

(* C3 witness: append_stop has just put a stop on a second route, so the  *)
(* stop has two route vertices joined by transfer edges                   *)
C3_Witness ==
    /\ err = None
    /\ last.op = "append_stop"
    /\ \E r \in DOMAIN Load(1).routes :
          /\ r # last.route_id
          /\ VerticesOf(Load(1), last.stop_id, r) # {}
          /\ VerticesOf(Load(1), last.stop_id, last.route_id) # {}

(* C4: when no call has raised, a stop s of some route has exactly one    *)
(* origin and one destination vertex, and for s in route r exactly one    *)
(* route vertex R(s, r), joined by one zero-weight edge from O(s) and one *)
(* zero-weight edge to D(s).                                              *)
C4_OneVertexPerRole ==
    err = None =>
      \A i \in Inds :
        LET g == Load(i)
        IN /\ \A s \in RouteStops(g) :
                /\ Cardinality(VerticesOf(g, s, ORIGIN)) = 1
                /\ Cardinality(VerticesOf(g, s, DEST)) = 1
           /\ \A r \in DOMAIN g.routes : \A s \in Range(g.routes[r]) :
                /\ Cardinality(VerticesOf(g, s, r)) = 1
                /\ \A v \in VerticesOf(g, s, r) :
                     /\ \A o \in VerticesOf(g, s, ORIGIN) : OneEdge(g, o, v, 0)
                     /\ \A d \in VerticesOf(g, s, DEST) : OneEdge(g, v, d, 0)

(* C4 witness: a stop that was already on one route has been added to a  *)
(* second one, so its origin and destination vertices are the ones made   *)
(* for the first                                                          *)
C4_Witness ==
    /\ err = None
    /\ last.op \in {"append_stop", "prepend_stop"}
    /\ last.stop_id \in DOMAIN Load(1).stops
    /\ Cardinality(DOMAIN Load(1).stops[last.stop_id].route_nodes) = 2

(* C5: for every individual, routes_changed = FALSE implies that the      *)
(* stored fitness is the objective of its current route set.              *)
C5_FitnessMemoSound ==
    \A i \in Inds :
      (err = None /\ ~Load(i).routes_changed) =>
         Load(i).fitness = _compute_fitness(Load(i)).fitness

(* C7: for a route r and a stop s that is in no route, append_stop(s, r)  *)
(* followed by remove_node(s, r) gives back the same vertices, edges,     *)
(* routes, stops index and vertex_to_stop map.                            *)
C7_AppendRemoveRoundTrip ==
    err = None =>
      \A i \in Inds :
        LET g == Load(i)
        IN \A r \in DOMAIN g.routes : \A s \in StopIds \ RouteStops(g) :
             LET g2 == remove_node(append_stop(g, s, r), s, r)
             IN Ok(g2) /\ Structure(g2) = Structure(g)

(* C8: for a non-empty route r and a stop s that is in no route,          *)
(* prepend_stop(s, r) followed by remove_node(s, r) gives back the same   *)
(* vertices, edges, routes, stop records (stop_seq included) and          *)
(* vertex_to_stop map.                                                    *)
C8_PrependRemoveRoundTrip ==
    err = None =>
      \A i \in Inds :
        LET g == Load(i)
        IN \A r \in DOMAIN g.routes : \A s \in StopIds \ RouteStops(g) :
             Len(g.routes[r]) > 0 =>
               LET g2 == remove_node(prepend_stop(g, s, r), s, r)
               IN Ok(g2) /\ Structure(g2) = Structure(g)

(* a step that is the call op on individual i *)
IsCall(op, i) == nops' = nops + 1 /\ last'.op = op /\ last'.self = i

(* C9: a replace_route(r, new_route) call returns normally and leaves     *)
(* route r equal to new_route, the set of RouteIds as it was and every    *)
(* other route as it was.                                                 *)
C9_ReplaceRoute ==
    [][\A i \in Inds :
         IsCall("replace_route", i) =>
           LET r == last'.route_id
               pre == Load(i).routes
               post == Load(i)'.routes
           IN /\ err' = None
              /\ DOMAIN post = DOMAIN pre
              /\ post[r] = last'.route
              /\ \A q \in (DOMAIN pre) \ {r} : post[q] = pre[q]]_vars

(* route r with the route vertex of each of its stops: what add_route     *)
(* must leave as it was for every route that existed before the call      *)
RoutePart(g, r) ==
    [route |-> g.routes[r],
     nodes |-> {[stop_id |-> s, vertex_idx |-> get_route_vertex(g, s, r)] :
                  s \in {x \in Range(g.routes[r]) :
                           x \in DOMAIN g.stops
                           /\ r \in DOMAIN g.stops[x].route_nodes}}]

(* C10: an add_route(route) call without a route id stores the route      *)
(* under the RouteId nroutes, which no route used before, makes nroutes   *)
(* one larger and leaves every route and its route vertices as they were. *)
C10_AddRouteNewId ==
    [][\A i \in Inds :
         IsCall("add_route", i) =>
           LET pre == Load(i)
               post == Load(i)'
               rid == nroutes(pre)
           IN /\ rid \notin DOMAIN pre.routes
              /\ DOMAIN post.routes = DOMAIN pre.routes \cup {rid}
              /\ nroutes(post) = nroutes(pre) + 1
              /\ post.routes[rid] = last'.route
              /\ \A q \in DOMAIN pre.routes :
                   RoutePart(post, q) = RoutePart(pre, q)]_vars

(* what copy() must leave alone in the original: graph, routes, stops     *)
(* index, vertex_to_stop map, memoized fitness and its dirty flag         *)
Individual(i) ==
    [structure |-> Structure(Load(i)), fitness |-> Load(i).fitness,
     routes_changed |-> Load(i).routes_changed]

(* C6: a call on one individual (copy() into its slot included) leaves    *)
(* the graph, routes, stops index, vertex_to_stop map and memoized        *)
(* fitness of every other individual as they were, in particular those    *)
(* of the original of a clone.                                            *)
C6_CopyIsDeep ==
    [][\A i \in Inds :
         last'.self # i => Individual(i)' = Individual(i)]_vars

(* C6 witness: the clone in slot 2 has been mutated by remove_node and    *)
(* now differs from its evaluated original                                *)
C6_Witness ==
    /\ err = None
    /\ last.op = "remove_node" /\ last.self = 2
    /\ DOMAIN Load(1).routes # {}
    /\ ~Load(1).routes_changed
    /\ Load(1).fitness # NewRouteSetGraph.fitness
    /\ Load(2).routes # Load(1).routes

(* C11: an append_stop or prepend_stop call with a stop that is already   *)
(* in the route, and an add_route call with a list in which a stop        *)
(* appears twice, raise an error; a call that returns normally leaves no  *)
(* route with a repeated stop.                                            *)
C11_DuplicateStopFails ==
    [][\A i \in Inds :
         /\ (IsCall("append_stop", i) \/ IsCall("prepend_stop", i))
              /\ last'.stop_id \in Range(Load(i).routes[last'.route_id])
              => err' # None
         /\ IsCall("add_route", i) /\ HasRepeat(last'.route) => err' # None
         /\ (nops' = nops + 1 /\ last'.self = i /\ err' = None)
              => \A r \in DOMAIN Load(i)'.routes : ~HasRepeat(Load(i)'.routes[r])]_vars

(* C11 witness: add_route was handed a list with a repeated stop and      *)
(* raised the assertion of Stop.add_route_node                            *)
C11_Witness ==
    /\ last.op = "add_route" /\ HasRepeat(last.route)
    /\ err = "AssertionError"

RECURSIVE ReachFrom(_, _)
(* the vertices that a walk along the edges of g reaches from the set S *)
ReachFrom(g, S) ==
    LET N == S \cup {e[2] : e \in {x \in DOMAIN g.edges : x[1] \in S}}
    IN IF N = S THEN S ELSE ReachFrom(g, N)

(* the demand pair p is served by g: both stops are on some route, D(d)   *)
(* is reached from O(o), and the path that the evaluation res walked back *)
(* has at most 2 transfers                                                *)
Served(g, p, res) ==
    /\ p[1] \in RouteStops(g) /\ p[2] \in RouteStops(g)
    /\ p[1] \in DOMAIN g.stops /\ p[2] \in DOMAIN g.stops
    /\ g.stops[p[2]].destination_idx \in ReachFrom(g, {g.stops[p[1]].origin_idx})
    /\ p \in DOMAIN res /\ res[p].ntransfers <= 2

C13_TermsOverServedPairs ==
    err = None =>
      \A i \in Inds :
        LET f == _compute_fitness(Load(i))
            S == f.satisfied_od_pairs
        IN /\ f.TT = SetSum([p \in S |-> f.res[p].dist * ODX[p]], S)
           /\ f.TTR = SetSum([p \in S |-> f.res[p].ntransfers * ODX[p]], S)

(* C14: in a route set made by add_route of the single route [a, b, c]    *)
(* the time reported from a to c is                                       *)
(* duration(a, b) + duration(b, c) + BUS_STOP_TIME.                       *)
C14_TravelTimeFromDurations ==
    err = None =>
      \A i \in Inds :
        LET g == Load(i)
        IN (DOMAIN g.routes = {0} /\ Len(g.routes[0]) = 3) =>
             LET a == g.routes[0][1]
                 b == g.routes[0][2]
                 c == g.routes[0][3]
             IN get_distances_transfers(g, a, c).dist
                  = get_duration(a, b) + get_duration(b, c) + bus_stop_time

(* the position of stop s in route r, 0 when it is not there *)
PosIn(g, r, s) ==
    IF s \in Range(g.routes[r])
    THEN CHOOSE k \in DOMAIN g.routes[r] : g.routes[r][k] = s
    ELSE 0

(* C15: in a route set of two routes that share exactly one stop, a pair  *)
(* with a path whose origin is on one route only and whose destination is *)
(* on the other only is reported with 1 transfer, and a pair whose origin *)
(* comes before its destination on one route with 0.                      *)
C15_TransfersAreRoutesMinusOne ==
    err = None =>
      \A i \in Inds :
        LET g == Load(i)
            f == _compute_fitness(g)
        IN (DOMAIN g.routes = {0, 1}
            /\ Cardinality(Range(g.routes[0]) \cap Range(g.routes[1])) = 1) =>
             \A p \in DOMAIN f.res :
               f.res[p].dist < INF =>
                 /\ (\E r \in {0, 1} :
                        /\ p[1] \in Range(g.routes[r]) \ Range(g.routes[1 - r])
                        /\ p[2] \in Range(g.routes[1 - r]) \ Range(g.routes[r]))
                      => f.res[p].ntransfers = 1
                 /\ (\E r \in {0, 1} :
                        /\ PosIn(g, r, p[1]) > 0
                        /\ PosIn(g, r, p[1]) < PosIn(g, r, p[2]))
                      => f.res[p].ntransfers = 0

(* C15 witness: routes [1,2,3] and [3,4,5] evaluated, the pair 1 -> 5     *)
(* crossing at stop 3 and the pair 1 -> 3 staying on route 0              *)
C15_Witness ==
    /\ err = None /\ last.op = "get_fitness" /\ last.self = 1
    /\ Load(1).routes = (0 :> <<1, 2, 3>>) @@ (1 :> <<3, 4, 5>>)
    /\ Load(1).report # NoReport
    /\ DOMAIN Load(1).report.transfers = {0, 1}

(* the sum of the weights of the in-vehicle edges of route r *)
RouteTravelTime(g, r) ==
    LET E == {e \in DOMAIN g.edges :
                e[1] \in RouteVertices(g, r) /\ e[2] \in RouteVertices(g, r)}
    IN SetSum([e \in E |-> e[3] * g.edges[e]], E)

(* C16: a remove_node call on the stop at an interior position k of route *)
(* r makes the sum of the in-vehicle edge weights of r smaller by         *)
(* duration(k-1, k) + duration(k, k+1) + BUS_STOP_TIME - duration(k-1, k+1). *)
C16_InteriorRemovalShortcut ==
    [][\A i \in Inds :
         IsCall("remove_node", i) =>
           LET g == Load(i)
               r == last'.route_id
               route == g.routes[r]
               k == PosIn(g, r, last'.stop_id)
           IN (1 < k /\ k < Len(route)) =>
                RouteTravelTime(g, r) - RouteTravelTime(Load(i)', r)
                  = get_duration(route[k - 1], route[k])
                    + get_duration(route[k], route[k + 1])
                    + bus_stop_time
                    - get_duration(route[k - 1], route[k + 1])]_vars

(* C20: every get_initial_routeset(K) call returns, and returns K routes, *)
(* each a non-empty shortest path of the road graph.                      *)
C20_InitialRoutesetReturns ==
    <>(/\ irs.pc = "return"
       /\ Len(irs.routes) = irs.n_routes
       /\ \A k \in DOMAIN irs.routes :
            /\ irs.routes[k] # <<>>
            /\ irs.routes[k] =
                 shortest_path(irs.routes[k][1], irs.routes[k][Len(irs.routes[k])]))

(* C17: a crossover(P1, P2, pswap) call on parents with the same RouteIds *)
(* returns normally two children with those RouteIds; for every RouteId   *)
(* of to_swap_idxs the children hold the routes of the parents exchanged  *)
(* and for every other RouteId each child holds the route of its own      *)
(* parent; with no RouteId drawn (pswap = 0) the children are             *)
(* structurally equal to the parents, with every RouteId drawn            *)
(* (pswap = 1) every route is exchanged.                                  *)
C17_CrossoverSwapsWholeRoutes ==
    [][last'.op = "crossover" =>
         LET P1 == Load(run.parents[1])
             P2 == Load(run.parents[2])
             C1 == LoadIn(St', run'.C[1])
             C2 == LoadIn(St', run'.C[2])
             swapped == run'.to_swap_idxs
         IN DOMAIN P1.routes = DOMAIN P2.routes =>
              /\ err' = None
              /\ DOMAIN C1.routes = DOMAIN P1.routes
              /\ DOMAIN C2.routes = DOMAIN P1.routes
              /\ \A i \in DOMAIN P1.routes :
                   IF i \in swapped
                   THEN C1.routes[i] = P2.routes[i] /\ C2.routes[i] = P1.routes[i]
                   ELSE C1.routes[i] = P1.routes[i] /\ C2.routes[i] = P2.routes[i]
              /\ swapped = {} =>
                   /\ Structure(C1) = Structure(P1)
                   /\ Structure(C2) = Structure(P2)]_vars

C17_Witness ==
    /\ err = None
    /\ run.pc = "mutation"
    /\ run.parents # <<>>
    /\ \E i \in run.to_swap_idxs :
         /\ Load(run.parents[1]).routes[i] # Load(run.parents[2]).routes[i]
         /\ Load(run.C[1]).routes[i] = Load(run.parents[2]).routes[i]
         /\ Load(run.C[2]).routes[i] = Load(run.parents[1]).routes[i]

(* C18: no step of an iteration modifies an individual of the population  *)
(* it started from: the graph, routes and directories of every individual *)
(* of P stay as they are and its memoized fitness, once computed, stays   *)
(* as it is, until self.P = Q drops the individual; the elite are carried *)
(* into the next population with both unchanged.                          *)
C18_GenerationNotModified ==
    [][\A i \in Range(run.P) :
         (run.pc = "assign" => i \in Range(run.Q)) =>
           /\ Structure(Load(i))' = Structure(Load(i))
           /\ ~Load(i).routes_changed =>
                /\ ~Load(i)'.routes_changed
                /\ Load(i)'.fitness = Load(i).fitness]_vars

C18_Witness ==
    /\ err = None
    /\ run.pc = "row"
    /\ run.i = 1
    /\ Range(run.P) \cap 1..pop_size # {}
    /\ \E c \in Range(run.P) \ 1..pop_size :
         Load(c).routes # Load(initial_routeset).routes

(* C19: while no call has raised, every route of every individual of the  *)
(* population, of Q and of the children is a non-empty list of pairwise   *)
(* distinct stops in which each stop is followed by one of its road       *)
(* neighbours.                                                            *)
C19_RoutesStayValid ==
    err = None =>
      \A i \in Range(run.P) \cup Range(run.Q) \cup Range(run.C) \cup Range(run.mutated) :
        \A r \in DOMAIN Load(i).routes :
          LET route == Load(i).routes[r]
          IN /\ route # <<>>
             /\ ~HasRepeat(route)
             /\ \A k \in 1..(Len(route) - 1) : route[k + 1] \in out_neighbors(route[k])

(* the vertex the record of a stop holds for a role, or -1 when it holds  *)
(* none                                                                   *)
RoleVertex(stop, role) ==
    IF role = ORIGIN THEN stop.origin_idx
    ELSE IF role = DEST THEN stop.destination_idx
    ELSE IF role \in DOMAIN stop.route_nodes THEN stop.route_nodes[role].vertex_idx
    ELSE -1

(* C21: when no call has raised, every vertex index v of the graph has a  *)
(* vertex_to_stop entry (s, role) and the record of stop s maps that role *)
(* back to v; and for every route r and position i the record of         *)
(* route[i] holds stop_seq = i for r.                                     *)
C21_DirectoriesAgree ==
    err = None =>
      \A i \in Inds :
        LET g == Load(i)
        IN /\ \A v \in Vertices(g) :
                /\ v \in DOMAIN g.vertex_to_stop
                /\ g.vertex_to_stop[v].stop_id \in DOMAIN g.stops
                /\ RoleVertex(g.stops[g.vertex_to_stop[v].stop_id],
                              g.vertex_to_stop[v].route_id) = v
           /\ \A r \in DOMAIN g.routes : \A k \in DOMAIN g.routes[r] :
                /\ g.routes[r][k] \in DOMAIN g.stops
                /\ r \in DOMAIN g.stops[g.routes[r][k]].route_nodes
                /\ get_seq(g.stops[g.routes[r][k]], r) = k - 1

(* C21 witness: a removal has moved the highest-indexed vertex into a     *)
(* vacated slot: a route vertex now has a lower index than the origin     *)
(* vertex of its stop, which is created before it                         *)
C21_Witness ==
    /\ err = None
    /\ last.op \in {"remove_node", "remove_route"}
    /\ \E s \in DOMAIN Load(1).stops : \E r \in DOMAIN Load(1).stops[s].route_nodes :
         /\ Load(1).stops[s].route_nodes[r].vertex_idx < Load(1).stops[s].origin_idx
         /\ s \in Range(Load(1).routes[r])

(* C22: after an append_stop(s, r) call that returned normally on a route *)
(* with a previous tail t, the graph has the in-vehicle edge              *)
(* R(t, r) -> R(s, r) with weight duration(t, s) + BUS_STOP_TIME; after a *)
(* prepend_stop(s, r) call it has the edge R(s, r) -> R(old head, r) with *)
(* weight duration(s, old head) + BUS_STOP_TIME.                          *)
C22_NewEdgeFromDurations ==
    (err = None /\ last.op \in {"append_stop", "prepend_stop"}) =>
      LET g == Load(last.self)
          r == last.route_id
          s == last.stop_id
          route == g.routes[r]
          n == Len(route)
      IN /\ (last.op = "append_stop" /\ n > 1) =>
              Edge(get_route_vertex(g, route[n - 1], r), get_route_vertex(g, s, r),
                   get_duration(route[n - 1], s) + bus_stop_time) \in DOMAIN g.edges
         /\ last.op = "prepend_stop" =>
              Edge(get_route_vertex(g, s, r), get_route_vertex(g, route[2], r),
                   get_duration(s, route[2]) + bus_stop_time) \in DOMAIN g.edges

(* C23: a remove_node(s, r) call that returns normally on a stop at an    *)
(* interior position k of route r leaves exactly one edge                 *)
(* R(route[k-1], r) -> R(route[k+1], r), of weight w1 + w2 -              *)
(* BUS_STOP_TIME for the weights w1, w2 of the two edges around s; when s *)
(* is the head or the tail the edges among the remaining stops of the     *)
(* route are the ones there were before.                                  *)
C23_SpliceEdge ==
    [][(last'.op = "remove_node" /\ err' = None
        /\ last'.route_id \in DOMAIN Load(1).routes
        /\ last'.stop_id \in Range(Load(1).routes[last'.route_id])) =>
         LET g == Load(1)
             h == Load(1)'
             r == last'.route_id
             route == g.routes[r]
             k == CHOOSE j \in DOMAIN route : route[j] = last'.stop_id
             Before(a, b) == EdgeDurations(g, get_route_vertex(g, a, r),
                                              get_route_vertex(g, b, r))
             After(a, b) == EdgeDurations(h, get_route_vertex(h, a, r),
                                             get_route_vertex(h, b, r))
         IN IF 1 < k /\ k < Len(route)
            THEN \E w1 \in Before(route[k - 1], route[k]),
                    w2 \in Before(route[k], route[k + 1]) :
                   /\ After(route[k - 1], route[k + 1]) = {w1 + w2 - bus_stop_time}
                   /\ NEdges(h, get_route_vertex(h, route[k - 1], r),
                                get_route_vertex(h, route[k + 1], r)) = 1
            ELSE \A a, b \in Range(route) \ {route[k]} :
                   After(a, b) = Before(a, b)]_vars

(* C23 witness: an interior stop has been removed from a route whose two  *)
(* edges around it had different weights (one prepended, one appended)    *)
C23_Witness ==
    /\ err = None
    /\ last.op = "remove_node"
    /\ last.route_id \in DOMAIN Load(1).routes
    /\ Len(Load(1).routes[last.route_id]) = 2
    /\ LET g == Load(1)
           route == g.routes[last.route_id]
       IN /\ last.stop_id \notin Range(route)
          /\ route[1] < last.stop_id /\ last.stop_id < route[2]
          /\ EdgeDurations(g, get_route_vertex(g, route[1], last.route_id),
                              get_route_vertex(g, route[2], last.route_id))
               = {get_duration(route[1], last.stop_id) + bus_stop_time
                  + APPEND_DURATION + bus_stop_time - bus_stop_time}

(* C24: when mutation(child) is called on a child with no empty route,    *)
(* the weight with which RouteId r is drawn is 1 / ds_total(first stop,   *)
(* last stop) of route r of the child, or 2 when the table has no total   *)
(* for that pair.                                                         *)
C24_WeightOfOwnRoute ==
    (err = None /\ run.pc = "mutation") =>
      LET g == Load(Head(run.C))
      IN (\A r \in DOMAIN g.routes : g.routes[r] # <<>>) =>
           \A r \in DOMAIN g.routes :
             mutation_probs(g, run.ds)[r + 1] = get_route_invds(g.routes[r], run.ds)

(* C25: a mutation(child) call that returns normally leaves no route      *)
(* empty that was non-empty and had a terminal among DS().origins (the    *)
(* routes for which big_mod draws a destination k and replaces the route  *)
(* by shortest_path(i, k)).                                               *)
C25_NoEmptyReplacement ==
    [][(last'.op = "mutation" /\ err' = None) =>
         LET g == Load(Head(run.C))
             h == LoadIn(St', Head(run.C))
         IN \A r \in DOMAIN g.routes :
              (/\ g.routes[r] # <<>>
               /\ \/ Terminal(g.routes[r], 0) \in DS_origins(run.ds)
                  \/ Terminal(g.routes[r], -1) \in DS_origins(run.ds))
              => h.routes[r] # <<>>]_vars

(* C26: in get_initial_routeset no total falls below zero: totals[(o, d)] *)
(* starts as the sum of odx(m, n) over the pairs (m, n) that (o, d)       *)
(* satisfies, so it stays at or above zero as long as each of those       *)
(* demands is subtracted from it at most once.                            *)
C26_SubtractedAtMostOnce ==
    \A k \in DOMAIN irs.totals : irs.totals[k].total >= 0

(* C27: whenever get_initial_routeset selects a pair, the pair selected   *)
(* has the largest current total and is the lexicographically smallest of *)
(* the pairs with that total.                                             *)
C27_ArgmaxLexicographic ==
    irs.pc = "select" =>
      \A k \in DOMAIN irs.totals :
        /\ irs.totals[k].total <= irs.totals[1].total
        /\ irs.totals[k].total = irs.totals[1].total =>
             \/ irs.totals[1].pair[1] < irs.totals[k].pair[1]
             \/ /\ irs.totals[1].pair[1] = irs.totals[k].pair[1]
                /\ irs.totals[1].pair[2] <= irs.totals[k].pair[2]

(* C28: for every individual whose memoized fitness has been computed and *)
(* is current (routes_changed = FALSE, so that get_report() returns the   *)
(* stored report), the stored report is the report of its route set, the  *)
(* one computed together with that fitness; in particular it is not None. *)
C28_ReportBelongsToFitness ==
    \A i \in Inds :
      (/\ err = None
       /\ ~Load(i).routes_changed
       /\ Load(i).fitness # NewRouteSetGraph.fitness) =>
         /\ Load(i).report # NoReport
         /\ Load(i).report = _compute_fitness(Load(i)).report

(* the value get_fitness() returns for the individual in slot i of the    *)
(* store st                                                               *)
FitnessOf(st, i) ==
    IF st.ind[i].routes_changed THEN _compute_fitness(LoadIn(st, i)).fitness
    ELSE st.ind[i].fitness

(* C29: when self.P = Q replaces a population in which some individual    *)
(* has the objective value b, the new population has an individual whose  *)
(* objective value is b or lower.                                         *)
C29_BestNeverIncreases ==
    [][(run.pc = "assign" /\ run'.pc = "row") =>
         \A i \in Range(run.P) :
           FitnessOf(St, i) # NaN =>
             \E j \in Range(run'.P) :
               /\ FitnessOf(St', j) # NaN
               /\ ~RatLess(FitnessOf(St, i), FitnessOf(St', j))]_vars

(* C30: while no call has raised, the population holds pop_size           *)
(* individuals whenever an iteration is about to start.                   *)
C30_PopulationSize ==
    (err = None /\ run.pc \in {"row", "iteration"}) => Len(run.P) = run.pop_size

====
